---------------------------- MODULE Spec2Model ----------------------------
(***************************************************************************)
(* A model of the review overlay of codemirror-essentials:                 *)
(*   packages/react-codemirror/src/useCmeLineReplace.ts                    *)
(*                                                                         *)
(* The state is the state of one CodeMirror editor (its document and the   *)
(* value of reviewField: the metadata list and the decoration set) and     *)
(* the view the hook was given (null or the editor).  Every operation of   *)
(* the hook is one action; an operation that dispatches a transaction      *)
(* carries the whole transaction: the change set is applied, reviewField   *)
(* is updated (remap, then the effects in order) and the new state is      *)
(* installed, or the transaction raises and nothing changes.               *)
(*                                                                         *)
(* Text is a sequence of one-character strings.  Offsets are 0-based, as   *)
(* in the source; Slice(doc, from, to) is the half-open interval.          *)
(***************************************************************************)
EXTENDS Integers, Sequences, FiniteSets

VARIABLES
    view,         \* "null" | "attached" | "bare": the EditorView the hook holds
    doc,          \* view.state.doc
    metadata,     \* view.state.field(reviewField).metadata
    decorations,  \* view.state.field(reviewField).decorations
    injected,     \* view.state.field(injectField)
    selection,    \* view.state.selection.main
    widgets,      \* view.state.field(lineWidgetField)
    last,         \* the last call made and how it ended
    trip,         \* a review just added with a fresh id, a row of clearReviews calls, or a removeLineWidget call
    base,         \* the document before any review, and the lines requested since
    nAdds,        \* review requests dispatched so far (bounded)
    nEdits,       \* user edits made so far (bounded)
    nCalls        \* calls of the hook and user edits so far (bounded)

vars == <<view, doc, metadata, decorations, injected, selection, widgets, last, trip, base, nAdds, nEdits, nCalls>>

---------------------------------------------------------------------------
(* Bounds of the model *)

MaxLines == 2     \* lines of the initial document
MaxDocLen == 7    \* no insertion makes the document longer than this
MaxAdds == 2      \* review requests and user edits in one run
MaxEdits == 1     \* user edits in one run
MaxCalls == 3     \* calls of the hook and user edits in one run
MaxBatch == 2     \* requests in one addReviews call

NL == "\n"
CR == "\r"

\* rangeClassName / improvedClassName left out of the request.  The source
\* only tests the names for truthiness (lines 147, 163).
NoClass == ""

Ids == {"r1", "r2"}

---------------------------------------------------------------------------
(* Text: the operations of @codemirror/state's Text and of JS strings that *)
(* the hook uses.                                                          *)

Max(a, b) == IF a >= b THEN a ELSE b
Min(a, b) == IF a <= b THEN a ELSE b

\* doc.length / string.length
Length(s) == Len(s)

\* doc.sliceString(from, to): the offsets are clipped to the document
Slice(s, from, to) ==
    LET f == Max(0, Min(Len(s), from))
        t == Max(f, Min(Len(s), to))
    IN  SubSeq(s, f + 1, t)

\* the number of line breaks in s
RECURSIVE CountNL(_)
CountNL(s) ==
    IF s = <<>> THEN 0
    ELSE (IF Head(s) = NL THEN 1 ELSE 0) + CountNL(Tail(s))

\* doc.lines
Lines(s) == 1 + CountNL(s)

\* improvedText.split("\n").length
SplitLength(s) == 1 + CountNL(s)

\* offset at which line n (1-indexed) of s starts, scanning from offset i
\* where line k starts
RECURSIVE LineStartFrom(_, _, _, _)
LineStartFrom(s, n, k, i) ==
    IF k = n THEN i
    ELSE IF i >= Len(s) THEN Len(s)
    ELSE LineStartFrom(s, n, IF s[i + 1] = NL THEN k + 1 ELSE k, i + 1)

\* offset of the end of the line that contains offset i (its line break, or
\* the end of the text)
RECURSIVE LineEndFrom(_, _)
LineEndFrom(s, i) ==
    IF i >= Len(s) \/ s[i + 1] = NL THEN i ELSE LineEndFrom(s, i + 1)

\* doc.line(n) raises RangeError for n outside 1..doc.lines
LineValid(s, n) == n >= 1 /\ n <= Lines(s)

\* doc.line(n).from and doc.line(n).to
LineFrom(s, n) == LineStartFrom(s, n, 1, 0)
LineTo(s, n) == LineEndFrom(s, LineFrom(s, n))

\* What a change's insert string becomes in the document: ChangeSet.of
\* splits the string on /\r\n?|\n/ and the Text joins its lines with "\n",
\* so "\r\n" and a lone "\r" each become one line break.
RECURSIVE InsertedText(_)
InsertedText(s) ==
    IF s = <<>> THEN <<>>
    ELSE IF Head(s) = CR
         THEN IF Len(s) >= 2 /\ s[2] = NL
              THEN <<NL>> \o InsertedText(Tail(Tail(s)))
              ELSE <<NL>> \o InsertedText(Tail(s))
         ELSE <<Head(s)>> \o InsertedText(Tail(s))

---------------------------------------------------------------------------
(* Change sets (@codemirror/state ChangeSet).  A change is a record         *)
(* [from, to, insert]; every change of one transaction is given in the     *)
(* coordinates of the document the transaction starts from.  The hook only *)
(* builds a single change, or (addReviews) several pure insertions.        *)

Change(from, to, insert) == [from |-> from, to |-> to, insert |-> insert]

\* ChangeSet.of raises RangeError "Invalid change range" for such a change
ChangeValid(s, c) == c.from >= 0 /\ c.from <= c.to /\ c.to <= Len(s)

ChangesValid(s, chs) == \A i \in 1..Len(chs) : ChangeValid(s, chs[i])

\* a change that deletes nothing and inserts nothing is dropped
ChangeIsEmpty(c) == c.from = c.to /\ c.insert = <<>>

\* tr.docChanged
DocChanged(chs) == \E i \in 1..Len(chs) : ~ChangeIsEmpty(chs[i])

\* chs in ascending order of from; changes at the same offset keep the
\* order in which they were given
RECURSIVE InsertSorted(_, _)
InsertSorted(sorted, c) ==
    IF sorted = <<>> THEN <<c>>
    ELSE IF sorted[Len(sorted)].from <= c.from THEN Append(sorted, c)
    ELSE Append(InsertSorted(SubSeq(sorted, 1, Len(sorted) - 1), c), sorted[Len(sorted)])

RECURSIVE SortChanges(_)
SortChanges(chs) ==
    IF chs = <<>> THEN <<>>
    ELSE InsertSorted(SortChanges(SubSeq(chs, 1, Len(chs) - 1)), chs[Len(chs)])

\* s with [from, to) replaced by text
Replace(s, from, to, text) ==
    SubSeq(s, 1, from) \o text \o SubSeq(s, to + 1, Len(s))

\* the sorted changes applied from the last to the first, so that the
\* offsets of the earlier ones still are those of the start document
RECURSIVE ApplySorted(_, _)
ApplySorted(s, chs) ==
    IF chs = <<>> THEN s
    ELSE LET c == chs[Len(chs)]
         IN  ApplySorted(Replace(s, c.from, c.to, InsertedText(c.insert)),
                         SubSeq(chs, 1, Len(chs) - 1))

\* tr.newDoc
ApplyChanges(s, chs) == ApplySorted(s, SortChanges(chs))

\* How far one change moves the offset pos (ChangeDesc.mapPos, MapMode.Simple):
\* an offset before the change stays; an offset behind it moves by the
\* change's length delta; an offset inside a deleted range moves to its
\* start (assoc < 0) or behind the inserted text (assoc > 0); at a pure
\* insertion the offset stays before the inserted text (assoc < 0) or moves
\* behind it (assoc > 0).
MapDelta(pos, assoc, c) ==
    LET ins == Len(InsertedText(c.insert))
    IN  IF pos < c.from THEN 0
        ELSE IF pos = c.from
             THEN IF c.from = c.to /\ assoc > 0 THEN ins ELSE 0
        ELSE IF pos < c.to
             THEN IF assoc < 0 THEN c.from - pos ELSE c.from + ins - pos
        ELSE ins - (c.to - c.from)

RECURSIVE SumDelta(_, _, _)
SumDelta(pos, assoc, chs) ==
    IF chs = <<>> THEN 0
    ELSE MapDelta(pos, assoc, Head(chs)) + SumDelta(pos, assoc, Tail(chs))

\* tr.changes.mapPos(pos, assoc)
MapPosAssoc(pos, assoc, chs) == pos + SumDelta(pos, assoc, chs)

\* mapPos with the other association: an offset at an insertion moves
\* behind the inserted text
MapPosBehind(pos, chs) == MapPosAssoc(pos, 1, chs)

\* tr.changes.mapPos(pos): assoc defaults to -1
MapPos(pos, chs) == MapPosAssoc(pos, -1, chs)

\* mapPos raises RangeError for an offset behind the end of the start document
MapPosValid(s, pos) == pos <= Len(s)

---------------------------------------------------------------------------
(* The selection (@codemirror/state).  A SelectionRange is a record        *)
(* [anchor, head]; from is the smaller and to the larger of the two.       *)

SelectionRange(anchor, head) == [anchor |-> anchor, head |-> head]

\* EditorSelection.cursor(pos)
Cursor(pos) == SelectionRange(pos, pos)

\* SelectionRange.from, SelectionRange.to
SelFrom(sel) == Min(sel.anchor, sel.head)
SelTo(sel) == Max(sel.anchor, sel.head)

\* SelectionRange.map(changes): an empty range maps as one offset with
\* assoc -1, another one maps its from with assoc 1 and its to with assoc
\* -1 and keeps its direction
MapSelection(sel, chs) ==
    IF sel.anchor = sel.head
    THEN Cursor(MapPosAssoc(sel.head, -1, chs))
    ELSE LET from == MapPosAssoc(SelFrom(sel), 1, chs)
             to == MapPosAssoc(SelTo(sel), -1, chs)
         IN  IF sel.anchor <= sel.head
             THEN SelectionRange(from, to)
             ELSE SelectionRange(to, from)

---------------------------------------------------------------------------
(* Decorations (@codemirror/view).  A decoration is a record               *)
(* [kind, from, to, id]: kind "replace" is the block replacement of the    *)
(* original range (Decoration.replace with block: true, which makes both   *)
(* ends inclusive), kind "mark" the mark on the improved text              *)
(* (Decoration.mark, both ends exclusive).  The set is kept as a sequence. *)

Deco(kind, from, to, id) == [kind |-> kind, from |-> from, to |-> to, id |-> id]

\* the side an end of a decoration is mapped with: an inclusive end takes
\* in what is inserted at it, an exclusive end does not
StartAssoc(d) == IF d.kind = "replace" THEN -1 ELSE 1
EndAssoc(d) == IF d.kind = "replace" THEN 1 ELSE -1

\* MapMode.TrackBefore: the character before pos is deleted
DeletedBefore(pos, chs) ==
    \E i \in 1..Len(chs) : chs[i].from < pos /\ pos <= chs[i].to

\* one range of Chunk.map
MappedDeco(d, chs) ==
    [d EXCEPT !.from = MapPosAssoc(d.from, StartAssoc(d), chs),
              !.to = MapPosAssoc(d.to, EndAssoc(d), chs)]

\* Chunk.map drops an empty block replacement whose preceding character is
\* deleted, and a mark that has become empty
DecoSurvives(d, chs) ==
    LET m == MappedDeco(d, chs)
    IN  IF d.kind = "replace"
        THEN (d.from = d.to => ~DeletedBefore(d.from, chs)) /\ m.from <= m.to
        ELSE m.from < m.to

RECURSIVE MapDecoSeq(_, _)
MapDecoSeq(decos, chs) ==
    IF decos = <<>> THEN <<>>
    ELSE (IF DecoSurvives(Head(decos), chs)
          THEN <<MappedDeco(Head(decos), chs)>> ELSE <<>>)
         \o MapDecoSeq(Tail(decos), chs)

\* RangeSet.map drops a chunk that one change covers on both sides
\* (touchesRange = "cover"); the decorations of the model are one chunk
Covered(decos, chs) ==
    /\ decos # <<>>
    /\ \E i \in 1..Len(chs) :
          /\ \A j \in 1..Len(decos) : chs[i].from < decos[j].from
          /\ \A j \in 1..Len(decos) : chs[i].to > decos[j].to

\* state.decorations.map(tr.changes)
MapDecorations(decos, chs) ==
    IF ~DocChanged(chs) \/ decos = <<>> THEN decos
    ELSE IF Covered(decos, chs) THEN <<>>
    ELSE MapDecoSeq(decos, chs)

---------------------------------------------------------------------------
(* reviewField                                                             *)

\* ReviewMetadata.  originalToLine and improvedLineCount are 0 where the
\* source leaves them undefined: it reads them only as (x ?? 0).
Meta(id, rangeFrom, rangeTo, originalText, insertedFrom, insertedTo, rangeClassName, improvedClassName, originalFromLine, originalToLine, improvedLineCount) ==
    [id |-> id, rangeFrom |-> rangeFrom, rangeTo |-> rangeTo,
     originalText |-> originalText,
     insertedFrom |-> insertedFrom, insertedTo |-> insertedTo,
     rangeClassName |-> rangeClassName, improvedClassName |-> improvedClassName,
     originalFromLine |-> originalFromLine, originalToLine |-> originalToLine,
     improvedLineCount |-> improvedLineCount]

\* the effects of a transaction
AddEffect(meta) == [type |-> "addReviewMetadata", meta |-> meta]
RemoveEffect(id) == [type |-> "removeReview", id |-> id]
ClearEffect == [type |-> "clearReviews"]

\* metadata.find((m) => m.id === id): the index of the first record, 0 for none
RECURSIVE FindFrom(_, _, _)
FindFrom(metas, id, i) ==
    IF i > Len(metas) THEN 0
    ELSE IF metas[i].id = id THEN i
    ELSE FindFrom(metas, id, i + 1)

\* a find that does not compare the id
FindAny(metas, id) == IF metas = <<>> THEN 0 ELSE 1

Find(metas, id) == FindFrom(metas, id, 1)

\* lines 129-135: every offset of a record mapped through the changes
\* a remap that rebuilds the record from its id and offsets alone
MappedMetaBare(meta, chs) ==
    [meta EXCEPT !.rangeFrom = MapPos(meta.rangeFrom, chs),
                 !.rangeTo = MapPos(meta.rangeTo, chs),
                 !.insertedFrom = MapPos(meta.insertedFrom, chs),
                 !.insertedTo = MapPos(meta.insertedTo, chs),
                 !.originalText = <<>>,
                 !.rangeClassName = NoClass,
                 !.improvedClassName = NoClass]

MappedMeta(meta, chs) ==
    [meta EXCEPT !.rangeFrom = MapPos(meta.rangeFrom, chs),
                 !.rangeTo = MapPos(meta.rangeTo, chs),
                 !.insertedFrom = MapPos(meta.insertedFrom, chs),
                 !.insertedTo = MapPos(meta.insertedTo, chs)]

\* a field that keeps the offsets as they were
MapMetadataStale(metas, chs) == metas

MapMetadata(metas, chs) ==
    IF DocChanged(chs)
    THEN [i \in 1..Len(metas) |-> MappedMeta(metas[i], chs)]
    ELSE metas

\* the remap raises when an offset lies behind the end of the document
RemapValid(s, metas, decos, chs) ==
    DocChanged(chs) =>
        /\ \A i \in 1..Len(metas) :
              /\ MapPosValid(s, metas[i].rangeFrom)
              /\ MapPosValid(s, metas[i].rangeTo)
              /\ MapPosValid(s, metas[i].insertedFrom)
              /\ MapPosValid(s, metas[i].insertedTo)
        /\ \A j \in 1..Len(decos) :
              MapPosValid(s, decos[j].from) /\ MapPosValid(s, decos[j].to)

\* lines 144-171: the decorations of a new record
NewDecorations(meta) ==
    (IF meta.rangeClassName # NoClass
     THEN <<Deco("replace", meta.rangeFrom, meta.rangeTo, meta.id)>> ELSE <<>>)
    \o
    (IF meta.improvedClassName # NoClass
     THEN <<Deco("mark", meta.insertedFrom, meta.insertedTo, meta.id)>> ELSE <<>>)

\* Decoration.replace(..).range raises for from > to, Decoration.mark(..).range
\* for from >= to ("Mark decorations may not be empty"), and
\* decorations.update({add}) for ranges that are not sorted by from
NewDecorationsValid(meta) ==
    /\ meta.rangeClassName # NoClass => meta.rangeFrom <= meta.rangeTo
    /\ meta.improvedClassName # NoClass => meta.insertedFrom < meta.insertedTo
    /\ (meta.rangeClassName # NoClass /\ meta.improvedClassName # NoClass)
          => meta.rangeFrom <= meta.insertedFrom

\* the filter of lines 186-197
KeepDecoration(d, id) == d.id # id

\* One effect of the loop of lines 138-210, applied to the field value
\* st = [ok, metadata, decorations]; ok turns FALSE when the effect raises.
ApplyEffect(st, e) ==
    IF ~st.ok THEN st
    ELSE IF e.type = "addReviewMetadata" THEN
        IF NewDecorationsValid(e.meta)
        THEN [ok |-> TRUE,
              metadata |-> Append(st.metadata, e.meta),
              decorations |-> st.decorations \o NewDecorations(e.meta)]
        ELSE [st EXCEPT !.ok = FALSE]
    ELSE IF e.type = "removeReview" THEN
        IF Find(st.metadata, e.id) # 0
        THEN [ok |-> TRUE,
              metadata |-> SelectSeq(st.metadata, LAMBDA m : m.id # e.id),
              decorations |-> SelectSeq(st.decorations,
                                        LAMBDA d : KeepDecoration(d, e.id))]
        ELSE st
    ELSE IF e.type = "clearReviews" THEN
        [ok |-> TRUE, metadata |-> <<>>, decorations |-> <<>>]
    ELSE st

RECURSIVE ApplyEffects(_, _)
ApplyEffects(st, effects) ==
    IF effects = <<>> THEN st
    ELSE ApplyEffects(ApplyEffect(st, Head(effects)), Tail(effects))

\* reviewField.update(state, tr)
reviewFieldUpdate(s, metas, decos, chs, effects) ==
    IF ~RemapValid(s, metas, decos, chs)
    THEN [ok |-> FALSE, metadata |-> metas, decorations |-> decos]
    ELSE ApplyEffects([ok |-> TRUE,
                       metadata |-> MapMetadata(metas, chs),
                       decorations |-> MapDecorations(decos, chs)],
                      effects)

---------------------------------------------------------------------------
(* injectField (useCmeInjectClassName.ts).  Its value is a set of line      *)
(* decorations, kept as a sequence ordered by position.  A line decoration  *)
(* is a point at the start of a line; spec is the object the source hands   *)
(* to Decoration.line.                                                      *)

\* the object has the property (an optional field left out is undefined)
Has(obj, name) == name \in DOMAIN obj

\* lines 57-61 and 76-80: attrs has the class, and the id if the id is truthy
Attrs(spec) ==
    IF Has(spec, "id") /\ spec.id # ""
    THEN [class |-> spec.className, id |-> spec.id]
    ELSE [class |-> spec.className]

\* Decoration.line(attrs).range(line.from): attrs is the spec
LineDeco(pos, attrs) == [from |-> pos, to |-> pos, spec |-> attrs]

\* addInjectEffect.of(spec) and removeInjectEffect.of(spec)
AddInjectEffect(spec) == [type |-> "addInject", value |-> spec]
RemoveInjectEffect(spec) == [type |-> "removeInject", value |-> spec]

\* line 43
validateLineNumbers(from, to, totalLines) ==
    from >= 1 /\ from <= totalLines /\ to >= 1 /\ to <= totalLines

\* a loop that stops before endLine
RangeDecorationsShort(s, startLine, endLine, attrs) ==
    [k \in 1..Max(0, endLine - startLine) |->
        LineDeco(LineFrom(s, startLine + k - 1), attrs)]

\* lines 54-62: one decoration at the start of each line startLine..endLine
RangeDecorations(s, startLine, endLine, attrs) ==
    [k \in 1..Max(0, endLine - startLine + 1) |->
        LineDeco(LineFrom(s, startLine + k - 1), attrs)]

\* value.update({add}): the new ranges are merged in by position
RECURSIVE AddRanges(_, _)
AddRanges(value, add) ==
    IF add = <<>> THEN value
    ELSE LET d == Head(add)
             before == SelectSeq(value, LAMBDA v : v.from <= d.from)
             behind == SelectSeq(value, LAMBDA v : v.from > d.from)
         IN  AddRanges(before \o <<d>> \o behind, Tail(add))

\* an addInjectEffect that clamps the line numbers into the document
ApplyAddInjectClamped(s, value, spec) ==
    LET totalLines == Lines(s)
        attrs == Attrs(spec)
    IN  IF spec.type = "range" /\ Has(spec, "range")
        THEN AddRanges(value,
                       RangeDecorations(s, Max(1, Min(spec.range.from, totalLines)),
                                        Max(1, Min(spec.range.to, totalLines)), attrs))
        ELSE IF spec.type = "single" /\ Has(spec, "singleLineNumber")
        THEN AddRanges(value,
                       <<LineDeco(LineFrom(s, Max(1, Min(spec.singleLineNumber, totalLines))),
                                  attrs)>>)
        ELSE value

\* an addInjectEffect that takes the first line for a payload left out
ApplyAddInjectDefault(s, value, spec) ==
    LET totalLines == Lines(s)
        attrs == Attrs(spec)
        from == IF spec.type = "range"
                THEN (IF Has(spec, "range") THEN spec.range.from ELSE 1)
                ELSE (IF Has(spec, "singleLineNumber") THEN spec.singleLineNumber ELSE 1)
        to == IF spec.type = "range"
              THEN (IF Has(spec, "range") THEN spec.range.to ELSE 1)
              ELSE from
    IN  IF validateLineNumbers(from, to, totalLines)
        THEN AddRanges(value, RangeDecorations(s, from, to, attrs))
        ELSE value

\* lines 32-85: one addInjectEffect, s the document of tr.state
ApplyAddInject(s, value, spec) ==
    LET totalLines == Lines(s)
        attrs == Attrs(spec)
    IN  IF spec.type = "range" /\ Has(spec, "range")
        THEN IF validateLineNumbers(spec.range.from, spec.range.to, totalLines)
             THEN AddRanges(value,
                            RangeDecorations(s, spec.range.from, spec.range.to, attrs))
             ELSE value
        ELSE IF /\ spec.type = "single"
                /\ Has(spec, "singleLineNumber")
                /\ spec.singleLineNumber # 0
                /\ spec.singleLineNumber >= 1
                /\ spec.singleLineNumber <= totalLines
        THEN AddRanges(value, <<LineDeco(LineFrom(s, spec.singleLineNumber), attrs)>>)
        ELSE value

\* lines 96-98
shouldRemove(attrs, type, content) ==
    \/ type = "className" /\ Has(attrs, "class") /\ attrs.class = content
    \/ type = "id" /\ Has(attrs, "id") /\ attrs.id = content

\* lines 92-103: the decoration is pushed to filtered; attrs is
\* decoration.spec.attributes
Filtered(d, type, content) ==
    /\ Has(d.spec, "attributes")
    /\ ~shouldRemove(d.spec.attributes, type, content)

\* lines 87-107: one removeInjectEffect
ApplyRemoveInject(value, spec) ==
    SelectSeq(value, LAMBDA d : Filtered(d, spec.type, spec.content))

\* line 29, value.map(tr.changes): a line decoration stays before a text
\* inserted at it and is dropped when the character before it is deleted
\* (MapMode.TrackBefore)
RECURSIVE MapLineDecos(_, _)
MapLineDecos(value, chs) ==
    IF value = <<>> THEN <<>>
    ELSE (IF DeletedBefore(Head(value).from, chs) THEN <<>>
          ELSE <<[Head(value) EXCEPT !.from = MapPosAssoc(@, -1, chs),
                                     !.to = MapPosAssoc(@, -1, chs)]>>)
         \o MapLineDecos(Tail(value), chs)

MapInjected(value, chs) ==
    IF ~DocChanged(chs) \/ value = <<>> THEN value
    ELSE IF Covered(value, chs) THEN <<>>
    ELSE MapLineDecos(value, chs)

\* the loop of lines 31-108
RECURSIVE ApplyInjectEffects(_, _, _)
ApplyInjectEffects(s, value, effects) ==
    IF effects = <<>> THEN value
    ELSE LET e == Head(effects)
             next == IF e.type = "addInject" THEN ApplyAddInject(s, value, e.value)
                     ELSE IF e.type = "removeInject" THEN ApplyRemoveInject(value, e.value)
                     ELSE value
         IN  ApplyInjectEffects(s, next, Tail(effects))

\* injectField.update(value, tr), s the document of tr.state
injectFieldUpdate(s, value, chs, effects) ==
    ApplyInjectEffects(s, MapInjected(value, chs), effects)

---------------------------------------------------------------------------
(* lineWidgetField (useCmeLineWidget.ts).  Its value is a set of widget     *)
(* decorations, kept as a sequence ordered by position and side.  A widget  *)
(* decoration is a point; spec is the object the source hands to            *)
(* Decoration.widget.                                                       *)

\* lines 70-76: the defaults of the destructuring
Above(w) == IF Has(w, "above") THEN w.above ELSE FALSE
IsBlock(w) == IF Has(w, "isBlock") THEN w.isBlock ELSE TRUE

\* lines 25-31 and 84: new ReactLineWidget(component, id); the id of a
\* request without id is undefined
ReactLineWidget(w) ==
    IF Has(w, "id") THEN [component |-> w.component, id |-> w.id]
    ELSE [component |-> w.component]

\* lines 85-92: Decoration.widget({widget, side, block}).range(pos)
WidgetDeco(pos, w) ==
    [from |-> pos, to |-> pos,
     spec |-> [widget |-> ReactLineWidget(w),
               side |-> IF Above(w) THEN 0 - 1 ELSE 1,
               block |-> IsBlock(w)]]

\* the startSide of a widget decoration orders the points of one position:
\* block widgets before, inline widgets before, inline widgets after,
\* block widgets after
StartSide(d) ==
    IF d.spec.side < 0 THEN (IF d.spec.block THEN 0 - 2 ELSE 0 - 1)
    ELSE (IF d.spec.block THEN 2 ELSE 1)

\* widgets.update({add: [range]}), lines 91-93: the new range goes before
\* the first range that does not sort before it
AddWidget(value, d) ==
    LET before == SelectSeq(value, LAMBDA v :
                      v.from < d.from \/ (v.from = d.from /\ StartSide(v) < StartSide(d)))
        behind == SelectSeq(value, LAMBDA v :
                      ~(v.from < d.from \/ (v.from = d.from /\ StartSide(v) < StartSide(d))))
    IN  before \o <<d>> \o behind

\* an addLineWidgetEffect that takes the line number as it comes, and the
\* last line for a number outside the document
ApplyAddLineWidgetUnclamped(s, value, w) ==
    LET validLineNumber == IF LineValid(s, w.lineNumber) THEN w.lineNumber ELSE Lines(s)
        pos == IF Above(w) THEN LineFrom(s, validLineNumber)
               ELSE LineTo(s, validLineNumber)
    IN  AddWidget(value, WidgetDeco(pos, w))

\* lines 69-94: one addLineWidgetEffect, s the document of tr.state
ApplyAddLineWidget(s, value, w) ==
    LET totalLines == Lines(s)
        validLineNumber == Max(1, Min(w.lineNumber, totalLines))
        pos == IF Above(w) THEN LineFrom(s, validLineNumber)
               ELSE LineTo(s, validLineNumber)
    IN  AddWidget(value, WidgetDeco(pos, w))

\* a filter that keeps the widgets that have another id only
KeepWidgetWithId(d, id) == Has(d.spec.widget, "id") /\ d.spec.widget.id # id

\* lines 99-102: the filter keeps the decoration
KeepWidget(d, id) == ~(Has(d.spec.widget, "id") /\ d.spec.widget.id = id)

\* lines 96-104: one removeLineWidgetEffect
ApplyRemoveLineWidget(value, id) ==
    SelectSeq(value, LAMBDA d : KeepWidget(d, id))

\* MapMode.TrackAfter: the character behind pos is deleted
DeletedAfter(pos, chs) ==
    \E i \in 1..Len(chs) : chs[i].from <= pos /\ pos < chs[i].to

\* MapMode.TrackDel: a deletion reaches across pos
DeletedAcross(pos, chs) ==
    \E i \in 1..Len(chs) : chs[i].from < pos /\ pos < chs[i].to

\* the map mode of a widget decoration: a block widget before its position
\* tracks the character before it, a block widget after its position the
\* character behind it, an inline widget a deletion across it
WidgetDropped(d, chs) ==
    IF ~d.spec.block THEN DeletedAcross(d.from, chs)
    ELSE IF d.spec.side < 0 THEN DeletedBefore(d.from, chs)
    ELSE DeletedAfter(d.from, chs)

RECURSIVE MapWidgetSeq(_, _)
MapWidgetSeq(value, chs) ==
    IF value = <<>> THEN <<>>
    ELSE (IF WidgetDropped(Head(value), chs) THEN <<>>
          ELSE <<[Head(value) EXCEPT !.from = MapPosAssoc(@, Head(value).spec.side, chs),
                                     !.to = MapPosAssoc(@, Head(value).spec.side, chs)]>>)
         \o MapWidgetSeq(Tail(value), chs)

\* line 66, widgets.map(tr.changes)
MapWidgets(value, chs) ==
    IF ~DocChanged(chs) \/ value = <<>> THEN value
    ELSE IF Covered(value, chs) THEN <<>>
    ELSE MapWidgetSeq(value, chs)

AddLineWidgetEffect(w) == [type |-> "addLineWidget", value |-> w]
RemoveLineWidgetEffect(id) == [type |-> "removeLineWidget", value |-> id]

\* the loop of lines 68-105
RECURSIVE ApplyWidgetEffects(_, _, _)
ApplyWidgetEffects(s, value, effects) ==
    IF effects = <<>> THEN value
    ELSE LET e == Head(effects)
             next == IF e.type = "addLineWidget" THEN ApplyAddLineWidget(s, value, e.value)
                     ELSE IF e.type = "removeLineWidget"
                     THEN ApplyRemoveLineWidget(value, e.value)
                     ELSE value
         IN  ApplyWidgetEffects(s, next, Tail(effects))

\* lineWidgetField.update(widgets, tr), s the document of tr.state
lineWidgetFieldUpdate(s, value, chs, effects) ==
    ApplyWidgetEffects(s, MapWidgets(value, chs), effects)

\* the update of reviewField in a transaction of the view: a "bare" view
\* is an editor whose state was made without reviewExtension, so that no
\* reviewField is updated and its effects go unheard
FieldUpdate(chs, effects) ==
    IF view = "bare"
    THEN [ok |-> TRUE, metadata |-> metadata, decorations |-> decorations]
    ELSE reviewFieldUpdate(doc, metadata, decorations, chs, effects)

\* view.dispatch({changes, effects}) can be carried out: the changes are
\* valid and the field update does not raise
DispatchOk(chs, effects) ==
    /\ ChangesValid(doc, chs)
    /\ FieldUpdate(chs, effects).ok

\* view.dispatch({changes, effects}): the new editor state, or no change at
\* all when the transaction raises
Dispatch(chs, effects) ==
    IF DispatchOk(chs, effects)
    THEN LET st == FieldUpdate(chs, effects)
         IN  /\ doc' = ApplyChanges(doc, chs)
             /\ metadata' = st.metadata
             /\ decorations' = st.decorations
             /\ injected' = injectFieldUpdate(ApplyChanges(doc, chs), injected,
                                              chs, effects)
             /\ selection' = MapSelection(selection, chs)
             /\ widgets' = lineWidgetFieldUpdate(ApplyChanges(doc, chs), widgets,
                                                 chs, effects)
    ELSE UNCHANGED <<doc, metadata, decorations, injected, selection, widgets>>

---------------------------------------------------------------------------
(* The inputs of the model                                                 *)

\* line numbers a request may name: 0 and MaxLines + 1 lie outside every
\* initial document
LineNums == 0..(MaxLines + 1)

\* the spans of the requests: lines in order, both inside or both outside
\* the initial document
LineSpans ==
    { <<fl, tl>> \in LineNums \X LineNums :
        /\ fl <= tl
        /\ (fl = 0 \/ tl = MaxLines + 1) => fl = tl }

\* improvedText with rangeClassName and improvedClassName: one line, two
\* lines, a line with a Windows line ending, and no text at all, with and
\* without the class names
Payloads ==
    { <<(<<"x">>), "old", "new">>,
      <<(<<"x">>), NoClass, NoClass>>,
      <<(<<"x", NL, "y">>), "old", "new">>,
      <<(<<"x", CR, NL>>), "old", "new">>,
      <<(<<>>), "old", "new">>,
      <<(<<>>), "old", NoClass>> }

\* ReviewInterface.  range.from and range.to are the offsets of the span's
\* lines in the current document where the lines exist, 0 otherwise;
\* addReview does not read them.
Review(fromLine, toLine, improvedText, rangeClassName, improvedClassName, id) ==
    [range |-> [from |-> IF LineValid(doc, fromLine) THEN LineFrom(doc, fromLine) ELSE 0,
                to |-> IF LineValid(doc, toLine) THEN LineTo(doc, toLine) ELSE 0,
                fromLine |-> fromLine, toLine |-> toLine],
     improvedText |-> improvedText,
     rangeClassName |-> rangeClassName,
     improvedClassName |-> improvedClassName,
     id |-> id]

Reviews ==
    { Review(ls[1], ls[2], p[1], p[2], p[3], id) :
        ls \in LineSpans, p \in Payloads, id \in Ids }

\* the requests of a batch
BatchPayloads ==
    { <<(<<"x">>), "old", "new">>,
      <<(<<"y">>), NoClass, NoClass>> }

BatchReviews ==
    { Review(ls[1], ls[2], p[1], p[2], p[3], id) :
        ls \in LineSpans, p \in BatchPayloads, id \in Ids }

\* the batches of n requests
Batches(n) == [1..n -> BatchReviews]

\* the documents an editor starts with: up to MaxLines lines, line i empty
\* or the i-th letter
Letters == <<"a", "b", "c", "d">>

RECURSIVE DocsOfLines(_)
DocsOfLines(n) ==
    IF n = 1 THEN { <<>>, <<Letters[1]>> }
    ELSE { d \o <<NL>> \o l : d \in DocsOfLines(n - 1), l \in { <<>>, <<Letters[n]>> } }

InitDocs == UNION { DocsOfLines(n) : n \in 1..MaxLines }

\* what a user types
Typed == { <<>>, <<"u">> }

\* the edits of the model: a deletion of any range, an insertion at any
\* offset, and a replacement of one character
EditShape(from, to, insert) ==
    \/ insert = <<>> /\ from < to
    \/ insert # <<>> /\ to <= from + 1

---------------------------------------------------------------------------
(* Bookkeeping of the model (not state of the program)                     *)

LiveIds == { metadata[i].id : i \in 1..Len(metadata) }

Called(op, id, result) ==
    [op |-> op, id |-> id, result |-> result, live |-> id \in LiveIds]

NoTrip == [stage |-> "none"]

\* after a call other than accept/reject of the review just added
EndTrip == trip' = NoTrip

\* after clearReviews: the state the first of a row of clearReviews calls
\* left, and whether a further call of the row followed
ClearTrip ==
    trip' = IF trip.stage \in {"cleared", "clearedTwice"}
            THEN [stage |-> "clearedTwice", after |-> trip.after]
            ELSE [stage |-> "cleared", after |-> <<doc', metadata', decorations', injected'>>]

\* after removeLineWidget: how many widgets the call took away
WidgetTrip ==
    trip' = [stage |-> "widgetsRemoved", n |-> Len(widgets) - Len(widgets')]

\* after acceptReview(id) / rejectReview(id)
StepTrip(id, stage) ==
    trip' = IF trip.stage = "added" /\ trip.id = id
            THEN [trip EXCEPT !.stage = stage]
            ELSE IF trip.stage = "edited" /\ trip.id = id
            THEN [trip EXCEPT !.stage = IF stage = "accepted" THEN "editedAccepted"
                                        ELSE "editedRejected"]
            ELSE NoTrip

\* the user edit c made right after the review was added: the trip keeps
\* the edit and the record as it was before the edit
EditTrip(c) ==
    trip' = IF trip.stage = "added" /\ trip.id \in LiveIds
            THEN [stage |-> "edited", id |-> trip.id, D |-> trip.D,
                  range |-> trip.range, T |-> trip.T, E |-> c,
                  m |-> metadata[Find(metadata, trip.id)]]
            ELSE NoTrip

\* bookkeeping: the lines the requests name; base.plain holds as long as
\* the requests made named lines of the document base.D that no earlier
\* request named and nothing but addReview, addReviews and removeReview
\* changed the editor
RequestLines(reviews) ==
    UNION { reviews[i].range.fromLine..reviews[i].range.toLine : i \in 1..Len(reviews) }

RequestsApart(reviews) ==
    /\ \A i \in 1..Len(reviews) :
          /\ 1 <= reviews[i].range.fromLine
          /\ reviews[i].range.fromLine <= reviews[i].range.toLine
          /\ reviews[i].range.toLine <= Lines(base.D)
    /\ \A i, j \in 1..Len(reviews) :
          i < j => (reviews[i].range.fromLine..reviews[i].range.toLine)
                      \cap (reviews[j].range.fromLine..reviews[j].range.toLine) = {}
    /\ RequestLines(reviews) \cap base.lines = {}

KeepBase == base' = base

SpoilBase ==
    base' = IF last'.result = "noop" THEN base ELSE [base EXCEPT !.plain = FALSE]

AddBase(reviews) ==
    base' = IF last'.result # "ok" THEN base
            ELSE IF RequestsApart(reviews)
            THEN [base EXCEPT !.lines = @ \cup RequestLines(reviews)]
            ELSE [base EXCEPT !.plain = FALSE]

---------------------------------------------------------------------------
(* The hook: useCmeLineReplace(view)                                       *)

Init ==
    /\ view = "null"
    /\ doc \in InitDocs
    /\ metadata = <<>>
    /\ decorations = <<>>
    /\ injected = <<>>
    /\ selection = Cursor(0)
    /\ widgets = <<>>
    /\ last = [op |-> "create", id |-> "", result |-> "ok", live |-> FALSE]
    /\ trip = NoTrip
    /\ base = [D |-> doc, plain |-> TRUE, lines |-> {}]
    /\ nAdds = 0
    /\ nEdits = 0
    /\ nCalls = 0

\* every call of the hook and every user edit counts as one call
Call ==
    /\ nCalls < MaxCalls
    /\ nCalls' = nCalls + 1

\* the component is rendered again with the editor that was created
Attach ==
    /\ view = "null"
    /\ view' = "attached"
    /\ last' = Called("attach", "", "ok")
    /\ EndTrip
    /\ UNCHANGED <<doc, metadata, decorations, injected, selection, widgets, nAdds, nEdits, nCalls>>
    /\ KeepBase

\* the component is rendered again with an editor whose extensions lack
\* reviewExtension
AttachBare ==
    /\ view = "null"
    /\ metadata = <<>>
    /\ view' = "bare"
    /\ last' = Called("attach", "", "ok")
    /\ EndTrip
    /\ UNCHANGED <<doc, metadata, decorations, injected, selection, widgets, nAdds, nEdits, nCalls>>
    /\ KeepBase

\* the component is rendered again without the editor (the view passed to
\* the hook is null again); the editor and its state live on
Detach ==
    /\ Call
    /\ view = "attached"
    /\ view' = "null"
    /\ last' = Called("detach", "", "ok")
    /\ EndTrip
    /\ UNCHANGED <<doc, metadata, decorations, injected, selection, widgets, nAdds, nEdits>>
    /\ KeepBase

\* lines 271-286: the lines inserted by the live reviews that lie before
\* fromLine in the numbering of the requests
\* a lineOffset that also counts the reviews whose last line is fromLine
RECURSIVE LineOffsetInclusive(_, _)
LineOffsetInclusive(metas, fromLine) ==
    IF metas = <<>> THEN 0
    ELSE (IF Head(metas).originalToLine > 0 /\ fromLine >= Head(metas).originalToLine
          THEN Head(metas).improvedLineCount ELSE 0)
         + LineOffsetInclusive(Tail(metas), fromLine)

RECURSIVE LineOffset(_, _)
LineOffset(metas, fromLine) ==
    IF metas = <<>> THEN 0
    ELSE (IF Head(metas).originalToLine > 0 /\ fromLine > Head(metas).originalToLine
          THEN Head(metas).improvedLineCount ELSE 0)
         + LineOffset(Tail(metas), fromLine)

\* lines 293-294
Clamp(line, lines) == Max(1, Min(line, lines))

\* lines 264-335: the record addReview builds
AddReviewMeta(review) ==
    LET lineOffset == LineOffset(metadata, review.range.fromLine)
        clampedFromLine == Clamp(review.range.fromLine + lineOffset, Lines(doc))
        clampedToLine == Clamp(review.range.toLine + lineOffset, Lines(doc))
        rangeFrom == LineFrom(doc, clampedFromLine)
        rangeTo == LineTo(doc, clampedToLine)
        insertPos == LineTo(doc, clampedToLine)
        textToInsert == <<NL>> \o review.improvedText
    IN  Meta(review.id, rangeFrom, rangeTo, Slice(doc, rangeFrom, rangeTo),
             insertPos + 1, insertPos + Length(textToInsert),
             review.rangeClassName, review.improvedClassName,
             review.range.fromLine, review.range.toLine,
             SplitLength(review.improvedText))

\* lines 316-319
AddReviewChanges(review) ==
    LET meta == AddReviewMeta(review)
    IN  <<Change(meta.insertedFrom - 1, meta.insertedFrom - 1,
                 <<NL>> \o review.improvedText)>>

\* lines 252-344
addReview(review) ==
    /\ Call
    /\ nAdds + nEdits < MaxAdds
    /\ Len(doc) + 1 + Len(review.improvedText) <= MaxDocLen
    /\ IF view = "null"
       THEN /\ last' = Called("addReview", review.id, "noop")
            /\ EndTrip
            /\ UNCHANGED <<doc, metadata, decorations, injected, selection, widgets, nAdds>>
       ELSE IF view = "bare"
       \* line 267: view.state.field(reviewField) raises for a state without the field
       THEN /\ last' = Called("addReview", review.id, "raised")
            /\ EndTrip
            /\ UNCHANGED <<doc, metadata, decorations, injected, selection, widgets, nAdds>>
       ELSE LET chs == AddReviewChanges(review)
                effects == <<AddEffect(AddReviewMeta(review))>>
            IN  /\ Dispatch(chs, effects)
                /\ last' = Called("addReview", review.id,
                                  IF DispatchOk(chs, effects) THEN "ok" ELSE "raised")
                /\ trip' = IF review.id \notin LiveIds
                           THEN [stage |-> "added", id |-> review.id, D |-> doc,
                                 range |-> review.range, T |-> review.improvedText]
                           ELSE NoTrip
                /\ nAdds' = nAdds + 1
    /\ UNCHANGED <<view, nEdits>>
    /\ AddBase(<<review>>)

\* string length of the texts the requests before the i-th insert
\* (accumulatedOffset, lines 357 and 397)
RECURSIVE AccumulatedOffset(_, _)
AccumulatedOffset(reviews, i) ==
    IF i <= 1 THEN 0
    ELSE AccumulatedOffset(reviews, i - 1)
         + Length(<<NL>> \o reviews[i - 1].improvedText)

\* lines 368-393: the record addReviews builds for its i-th request
AddReviewsMeta(reviews, i) ==
    LET review == reviews[i]
        accumulatedOffset == AccumulatedOffset(reviews, i)
        insertPos == LineTo(doc, review.range.toLine) + accumulatedOffset
        textToInsert == <<NL>> \o review.improvedText
    IN  Meta(review.id,
             review.range.from + accumulatedOffset,
             review.range.to + accumulatedOffset,
             Slice(doc, review.range.from, review.range.to),
             insertPos + 1, insertPos + Length(textToInsert),
             review.rangeClassName, review.improvedClassName,
             0, 0, 0)

\* lines 379-382
AddReviewsChanges(reviews) ==
    [i \in 1..Len(reviews) |->
        Change(AddReviewsMeta(reviews, i).insertedFrom - 1,
               AddReviewsMeta(reviews, i).insertedFrom - 1,
               <<NL>> \o reviews[i].improvedText)]

\* a batch that records only its first request
AddReviewsEffectsFirst(reviews) ==
    IF reviews = <<>> THEN <<>> ELSE <<AddEffect(AddReviewsMeta(reviews, 1))>>

AddReviewsEffects(reviews) ==
    [i \in 1..Len(reviews) |-> AddEffect(AddReviewsMeta(reviews, i))]

\* line 368: doc.line(range.toLine) raises for a line the document has not
AddReviewsLinesValid(reviews) ==
    \A i \in 1..Len(reviews) : LineValid(doc, reviews[i].range.toLine)

\* the inserted texts fit the bound of the model
RECURSIVE TotalInsert(_)
TotalInsert(reviews) ==
    IF reviews = <<>> THEN 0
    ELSE 1 + Len(Head(reviews).improvedText) + TotalInsert(Tail(reviews))

\* lines 349-406
addReviews(reviews) ==
    /\ Call
    /\ nAdds + nEdits + Len(reviews) <= MaxAdds
    /\ Len(doc) + TotalInsert(reviews) <= MaxDocLen
    /\ IF view = "null"
       THEN /\ last' = Called("addReviews", "", "noop")
            /\ UNCHANGED <<doc, metadata, decorations, injected, selection, widgets, nAdds>>
       ELSE IF ~AddReviewsLinesValid(reviews)
       THEN /\ last' = Called("addReviews", "", "raised")
            /\ nAdds' = nAdds + Len(reviews)
            /\ UNCHANGED <<doc, metadata, decorations, injected, selection, widgets>>
       ELSE LET chs == AddReviewsChanges(reviews)
                effects == AddReviewsEffects(reviews)
            IN  /\ Dispatch(chs, effects)
                /\ last' = Called("addReviews", "",
                                  IF DispatchOk(chs, effects) THEN "ok" ELSE "raised")
                /\ nAdds' = nAdds + Len(reviews)
    /\ EndTrip
    /\ UNCHANGED <<view, nEdits>>
    /\ AddBase(reviews)

\* a removeReview that also deletes the inserted text of the review
removeReviewWithText(id) ==
    /\ Call
    /\ IF view = "null"
       THEN /\ last' = Called("removeReview", id, "noop")
            /\ UNCHANGED <<doc, metadata, decorations, injected, selection, widgets>>
       ELSE /\ Dispatch(IF Find(metadata, id) = 0 THEN <<>>
                        ELSE <<Change(metadata[Find(metadata, id)].insertedFrom - 1,
                                      metadata[Find(metadata, id)].insertedTo, <<>>)>>,
                        <<RemoveEffect(id)>>)
            /\ last' = Called("removeReview", id, "ok")
    /\ EndTrip
    /\ UNCHANGED <<view, nAdds, nEdits>>
    /\ KeepBase

\* lines 411-420
removeReview(id) ==
    /\ Call
    /\ IF view = "null"
       THEN /\ last' = Called("removeReview", id, "noop")
            /\ UNCHANGED <<doc, metadata, decorations, injected, selection, widgets>>
       ELSE /\ Dispatch(<<>>, <<RemoveEffect(id)>>)
            /\ last' = Called("removeReview", id, "ok")
    /\ EndTrip
    /\ UNCHANGED <<view, nAdds, nEdits>>
    /\ KeepBase

\* a clearReviews that also deletes the first character of the document
clearReviewsAndHead ==
    /\ Call
    /\ IF view = "null"
       THEN /\ last' = Called("clearReviews", "", "noop")
            /\ UNCHANGED <<doc, metadata, decorations, injected, selection, widgets>>
       ELSE /\ Dispatch(<<Change(0, Min(1, Len(doc)), <<>>)>>, <<ClearEffect>>)
            /\ last' = Called("clearReviews", "", "ok")
    /\ ClearTrip
    /\ UNCHANGED <<view, nAdds, nEdits>>
    /\ SpoilBase

\* lines 425-431
clearReviews ==
    /\ Call
    /\ IF view = "null"
       THEN /\ last' = Called("clearReviews", "", "noop")
            /\ UNCHANGED <<doc, metadata, decorations, injected, selection, widgets>>
       ELSE /\ Dispatch(<<>>, <<ClearEffect>>)
            /\ last' = Called("clearReviews", "", "ok")
    /\ ClearTrip
    /\ UNCHANGED <<view, nAdds, nEdits>>
    /\ SpoilBase

\* lines 436-444: the record, or NotFound for undefined
NotFound == [id |-> "undefined"]

\* a lookup without the guard of lines 437-439
getReviewMetadataUnguarded(id) ==
    IF Find(metadata, id) = 0 THEN NotFound
    ELSE metadata[Find(metadata, id)]

getReviewMetadata(id) ==
    IF view = "null" THEN NotFound
    ELSE IF Find(metadata, id) = 0 THEN NotFound
    ELSE metadata[Find(metadata, id)]

\* line 460
AcceptChanges(meta) == <<Change(meta.rangeFrom, meta.rangeTo + 1, <<>>)>>

\* lines 450-465
acceptReview(id) ==
    /\ Call
    /\ IF view = "null" \/ (view # "bare" /\ getReviewMetadata(id) = NotFound)
       THEN /\ last' = Called("acceptReview", id, "noop")
            /\ UNCHANGED <<doc, metadata, decorations, injected, selection, widgets>>
       ELSE IF view = "bare"
       \* line 440: view.state.field(reviewField) raises for a state without the field
       THEN /\ last' = Called("acceptReview", id, "raised")
            /\ UNCHANGED <<doc, metadata, decorations, injected, selection, widgets>>
       ELSE LET chs == AcceptChanges(getReviewMetadata(id))
                effects == <<RemoveEffect(id)>>
            IN  /\ Dispatch(chs, effects)
                /\ last' = Called("acceptReview", id,
                                  IF DispatchOk(chs, effects) THEN "ok" ELSE "raised")
    /\ StepTrip(id, "accepted")
    /\ UNCHANGED <<view, nAdds, nEdits>>
    /\ SpoilBase

\* line 481
RejectChanges(meta) == <<Change(meta.insertedFrom - 1, meta.insertedTo, <<>>)>>

\* lines 471-486
rejectReview(id) ==
    /\ Call
    /\ IF view = "null" \/ (view # "bare" /\ getReviewMetadata(id) = NotFound)
       THEN /\ last' = Called("rejectReview", id, "noop")
            /\ UNCHANGED <<doc, metadata, decorations, injected, selection, widgets>>
       ELSE IF view = "bare"
       \* line 440: view.state.field(reviewField) raises for a state without the field
       THEN /\ last' = Called("rejectReview", id, "raised")
            /\ UNCHANGED <<doc, metadata, decorations, injected, selection, widgets>>
       ELSE LET chs == RejectChanges(getReviewMetadata(id))
                effects == <<RemoveEffect(id)>>
            IN  /\ Dispatch(chs, effects)
                /\ last' = Called("rejectReview", id,
                                  IF DispatchOk(chs, effects) THEN "ok" ELSE "raised")
    /\ StepTrip(id, "rejected")
    /\ UNCHANGED <<view, nAdds, nEdits>>
    /\ SpoilBase

\* the user (or another extension) edits the document of the attached
\* editor: one transaction that replaces [from, to) by insert
userEdit(from, to, insert) ==
    /\ Call
    /\ view = "attached"
    /\ nEdits < MaxEdits
    /\ nAdds + nEdits < MaxAdds
    /\ EditShape(from, to, insert)
    /\ Len(doc) + Len(insert) - (to - from) <= MaxDocLen
    /\ Dispatch(<<Change(from, to, insert)>>, <<>>)
    /\ last' = Called("userEdit", "",
                      IF DispatchOk(<<Change(from, to, insert)>>, <<>>)
                      THEN "ok" ELSE "raised")
    /\ nEdits' = nEdits + 1
    /\ EditTrip(Change(from, to, insert))
    /\ UNCHANGED <<view, nAdds>>
    /\ SpoilBase

\* the budget of the model allows a call that dispatches n requests or
\* user edits
Allowed(n) == nCalls < MaxCalls /\ nAdds + nEdits + n <= MaxAdds

Next ==
    \/ Attach
    \/ Detach
    \/ Allowed(1) /\ \E review \in Reviews : addReview(review)
    \/ \E n \in 0..MaxBatch :
          Allowed(n) /\ \E reviews \in Batches(n) : addReviews(reviews)
    \/ \E id \in Ids : removeReview(id)
    \/ clearReviews
    \/ \E id \in Ids : acceptReview(id)
    \/ \E id \in Ids : rejectReview(id)
    \/ Allowed(1) /\ nEdits < MaxEdits /\
          \E from \in 0..Len(doc) : \E to \in from..Len(doc) : \E insert \in Typed :
             userEdit(from, to, insert)

Spec == Init /\ [][Next]_vars

---------------------------------------------------------------------------
(* Requests without an id                                                  *)

\* readings of Date.now()
Clock == 1..2

\* line 261: `review-${Date.now()}`
DefaultId(now) == <<"review-1", "review-2">>[now]

\* ReviewInterface without the optional id
Anonymous == { [f \in DOMAIN r \ {"id"} |-> r[f]] : r \in Reviews }

\* lines 256-262: the request as destructured, the id defaulted
WithDefaultId(review, now) ==
    IF Has(review, "id") THEN review
    ELSE [f \in DOMAIN review \cup {"id"} |->
             IF f = "id" THEN DefaultId(now) ELSE review[f]]

\* lines 252-344: addReview(review) called when the clock reads now
addReviewNow(review, now) == addReview(WithDefaultId(review, now))

\* callers that name an id name one that is not live
IdNext ==
    \/ Attach
    \/ Allowed(1) /\ \E review \in Reviews : review.id \notin LiveIds /\ addReview(review)
    \/ Allowed(1) /\ \E review \in Anonymous : \E now \in Clock : addReviewNow(review, now)
    \/ \E id \in Ids \cup { DefaultId(now) : now \in Clock } : removeReview(id)

IdSpec == Init /\ [][IdNext]_vars

---------------------------------------------------------------------------
(* Requests whose span covers part of its lines                            *)

\* the requests for lines of the document whose offsets lie anywhere
\* within the first and the last line of the span
SpanReviews ==
    { r \in { [x EXCEPT !.range.from = f, !.range.to = t] :
                x \in { y \in Reviews : y.id = "r1" },
                f \in 0..Len(doc), t \in 0..Len(doc) } :
        /\ LineValid(doc, r.range.fromLine)
        /\ LineValid(doc, r.range.toLine)
        /\ LineFrom(doc, r.range.fromLine) <= r.range.from
        /\ r.range.from <= LineTo(doc, r.range.fromLine)
        /\ LineFrom(doc, r.range.toLine) <= r.range.to
        /\ r.range.to <= LineTo(doc, r.range.toLine)
        /\ r.range.from <= r.range.to }

SpanNext ==
    \/ Attach
    \/ Allowed(1) /\ \E review \in SpanReviews : addReview(review)
    \/ Allowed(1) /\ \E review \in SpanReviews : addReviews(<<review>>)

SpanSpec == Init /\ [][SpanNext]_vars

---------------------------------------------------------------------------
(* The hook useCmeInjectClassName(view)                                    *)

\* line numbers a request may name
InjectLines == (0 - 1)..(MaxLines + 1)

ClassNames == {"c1", "c2"}
InjectIds == {"i1"}

\* InjectEffectSpec: range requests with and without the range, single
\* requests with and without the line number, each with and without an id
InjectSpecs ==
    LET ranges == { [from |-> f, to |-> t] : f \in InjectLines, t \in InjectLines }
        bare == { [type |-> ty, className |-> c] :
                    ty \in {"range", "single"}, c \in ClassNames }
        withRange == { [type |-> "range", className |-> c, range |-> r] :
                         c \in ClassNames, r \in ranges }
        withLine == { [type |-> "single", className |-> c, singleLineNumber |-> n] :
                        c \in ClassNames, n \in InjectLines }
        plain == bare \cup withRange \cup withLine
    IN  plain \cup { [f \in DOMAIN p \cup {"id"} |->
                         IF f = "id" THEN i ELSE p[f]] : p \in plain, i \in InjectIds }

\* RemoveInjectEffectSepc
RemoveSpecs ==
    { [type |-> ty, content |-> c] :
        ty \in {"className", "id"}, c \in ClassNames \cup InjectIds }

\* the request lacks the payload of its type
Malformed(spec) ==
    \/ spec.type = "range" /\ ~Has(spec, "range")
    \/ spec.type = "single" /\ ~Has(spec, "singleLineNumber")

\* the request names a line the document s does not have
InvalidLines(s, spec) ==
    \/ /\ spec.type = "range" /\ Has(spec, "range")
       /\ \/ spec.range.from < 1 \/ spec.range.from > Lines(s)
          \/ spec.range.to < 1 \/ spec.range.to > Lines(s)
    \/ /\ spec.type = "single" /\ Has(spec, "singleLineNumber")
       /\ (spec.singleLineNumber < 1 \/ spec.singleLineNumber > Lines(s))

\* bookkeeping: the kind of the request of the last addInject
Kind(spec) ==
    IF Malformed(spec) THEN "malformed"
    ELSE IF InvalidLines(doc, spec) THEN "invalid"
    ELSE "valid"

\* lines 117-126
addInject(spec) ==
    /\ Call
    /\ IF view = "null"
       THEN /\ last' = Called("addInject", Kind(spec), "noop")
            /\ UNCHANGED <<doc, metadata, decorations, injected, selection, widgets>>
       ELSE /\ Dispatch(<<>>, <<AddInjectEffect(spec)>>)
            /\ last' = Called("addInject", Kind(spec), "ok")
    /\ EndTrip
    /\ UNCHANGED <<view, nAdds, nEdits>>
    /\ KeepBase

\* lines 128-137
removeInject(spec) ==
    /\ Call
    /\ IF view = "null"
       THEN /\ last' = Called("removeInject", spec.content, "noop")
            /\ UNCHANGED <<doc, metadata, decorations, injected, selection, widgets>>
       ELSE /\ Dispatch(<<>>, <<RemoveInjectEffect(spec)>>)
            /\ last' = Called("removeInject", spec.content, "ok")
    /\ EndTrip
    /\ UNCHANGED <<view, nAdds, nEdits>>
    /\ KeepBase

InjectNext ==
    \/ Attach
    \/ \E spec \in InjectSpecs : addInject(spec)
    \/ \E spec \in RemoveSpecs : removeInject(spec)
    \/ Allowed(1) /\ nEdits < MaxEdits /\
          \E from \in 0..Len(doc) : \E to \in from..Len(doc) : \E insert \in Typed :
             userEdit(from, to, insert)

InjectSpec == Init /\ [][InjectNext]_vars

---------------------------------------------------------------------------
(* The hook useCmeSelection(view)                                          *)

\* doc.lineAt(pos).number
LineAt(s, pos) == 1 + CountNL(SubSeq(s, 1, pos))

\* getSelection returns null
Null == [null |-> TRUE]

\* lines 58-65
SelectionInfo(s, from, to) ==
    [from |-> from,
     to |-> to,
     fromLine |-> LineAt(s, from),
     toLine |-> LineAt(s, to),
     text |-> Slice(s, from, to),
     hasSelection |-> from # to]

\* a getSelection that takes anchor and head for from and to
getSelectionAnchored ==
    IF view = "null" THEN Null
    ELSE SelectionInfo(doc, selection.anchor, selection.head)

\* lines 47-66: what getSelection() returns in the current state
getSelection ==
    IF view = "null" THEN Null
    ELSE SelectionInfo(doc, SelFrom(selection), SelTo(selection))

\* the user selects in the attached editor: one transaction that sets the
\* main selection to anchor..head
select(anchor, head) ==
    /\ Call
    /\ view = "attached"
    /\ anchor \in 0..Len(doc) /\ head \in 0..Len(doc)
    /\ selection' = SelectionRange(anchor, head)
    /\ last' = Called("select", "", "ok")
    /\ EndTrip
    /\ UNCHANGED <<view, doc, metadata, decorations, injected, widgets, nAdds, nEdits>>
    /\ KeepBase

SelectionNext ==
    \/ Attach
    \/ Detach
    \/ \E anchor \in 0..Len(doc) : \E head \in 0..Len(doc) : select(anchor, head)
    \/ Allowed(1) /\ nEdits < MaxEdits /\
          \E from \in 0..Len(doc) : \E to \in from..Len(doc) : \E insert \in Typed :
             userEdit(from, to, insert)

SelectionSpec == Init /\ [][SelectionNext]_vars

---------------------------------------------------------------------------
(* The hook useCmeLineWidget(view)                                         *)

\* line numbers a request may name
WidgetLines == (0 - 1)..(MaxLines + 1)

WidgetIds == {"w1", "w2"}

\* LineWidgetSpec: with and without id, above and isBlock; the component
\* is opaque
WidgetSpecs ==
    LET bare == { [lineNumber |-> n, component |-> "el"] : n \in WidgetLines }
        withId == bare \cup { [f \in DOMAIN p \cup {"id"} |->
                                 IF f = "id" THEN i ELSE p[f]] : p \in bare, i \in WidgetIds }
        withAbove == withId \cup { [f \in DOMAIN p \cup {"above"} |->
                                      IF f = "above" THEN TRUE ELSE p[f]] : p \in withId }
    IN  withAbove \cup { [f \in DOMAIN p \cup {"isBlock"} |->
                            IF f = "isBlock" THEN FALSE ELSE p[f]] : p \in withAbove }

\* lines 114-123
addLineWidget(w) ==
    /\ Call
    /\ IF view = "null"
       THEN /\ last' = Called("addLineWidget", "", "noop")
            /\ UNCHANGED <<doc, metadata, decorations, injected, selection, widgets>>
       ELSE /\ Dispatch(<<>>, <<AddLineWidgetEffect(w)>>)
            /\ last' = Called("addLineWidget", "", "ok")
    /\ EndTrip
    /\ UNCHANGED <<view, nAdds, nEdits>>
    /\ KeepBase

\* lines 125-134
removeLineWidget(id) ==
    /\ Call
    /\ IF view = "null"
       THEN /\ last' = Called("removeLineWidget", id, "noop")
            /\ UNCHANGED <<doc, metadata, decorations, injected, selection, widgets>>
       ELSE /\ Dispatch(<<>>, <<RemoveLineWidgetEffect(id)>>)
            /\ last' = Called("removeLineWidget", id, "ok")
    /\ WidgetTrip
    /\ UNCHANGED <<view, nAdds, nEdits>>
    /\ KeepBase

WidgetNext ==
    \/ Attach
    \/ \E w \in WidgetSpecs : addLineWidget(w)
    \/ \E id \in WidgetIds : removeLineWidget(id)
    \/ Allowed(1) /\ nEdits < MaxEdits /\
          \E from \in 0..Len(doc) : \E to \in from..Len(doc) : \E insert \in Typed :
             userEdit(from, to, insert)

WidgetSpec == Init /\ [][WidgetNext]_vars

---------------------------------------------------------------------------
(* The three extensions in one editor                                      *)

\* the inject requests of an editor under review: one line, or all lines
\* of the first document
SharedInjects ==
    { [type |-> "single", className |-> "c1", singleLineNumber |-> n] :
        n \in 1..(MaxLines + 1) }
    \cup { [type |-> "range", className |-> "c2", range |-> [from |-> 1, to |-> MaxLines]] }

SharedRemoves == { [type |-> "className", content |-> "c1"] }

\* the widgets of an editor under review: below or above a line
SharedWidgets ==
    { [lineNumber |-> n, component |-> "el", id |-> "w1"] : n \in 1..(MaxLines + 1) }
    \cup { [lineNumber |-> n, component |-> "el", id |-> "w1", above |-> TRUE] :
             n \in 1..(MaxLines + 1) }

SharedNext ==
    \/ Attach
    \/ Allowed(1) /\ \E review \in Reviews : addReview(review)
    \/ \E n \in 1..MaxBatch :
          Allowed(n) /\ \E reviews \in Batches(n) : addReviews(reviews)
    \/ \E id \in Ids : acceptReview(id)
    \/ \E id \in Ids : rejectReview(id)
    \/ \E spec \in SharedInjects : addInject(spec)
    \/ \E spec \in SharedRemoves : removeInject(spec)
    \/ \E w \in SharedWidgets : addLineWidget(w)
    \/ removeLineWidget("w1")

SharedSpec == Init /\ [][SharedNext]_vars

---------------------------------------------------------------------------
(* The hook on an editor without reviewExtension                           *)

BareNext ==
    \/ AttachBare
    \/ Allowed(1) /\ \E review \in Reviews : addReview(review)
    \/ \E n \in 0..MaxBatch :
          Allowed(n) /\ \E reviews \in Batches(n) : addReviews(reviews)
    \/ \E id \in Ids : removeReview(id)
    \/ clearReviews
    \/ \E id \in Ids : acceptReview(id)
    \/ \E id \in Ids : rejectReview(id)

BareSpec == Init /\ [][BareNext]_vars

---------------------------------------------------------------------------
(* Properties                                                              *)

\* the span of a request agrees with its line numbers in the document s
SpanAgrees(s, range) ==
    /\ LineValid(s, range.fromLine)
    /\ LineValid(s, range.toLine)
    /\ range.fromLine <= range.toLine
    /\ range.from = LineFrom(s, range.fromLine)
    /\ range.to = LineTo(s, range.toLine)

\* C1: addReview of a review with a fresh id on the document D followed
\* at once by rejectReview of that id leaves a document equal to D.
C1_RejectRestoresDocument ==
    trip.stage = "rejected" => doc = trip.D

\* C2: addReview(S, T) with a fresh id on the document D, S agreeing with
\* its line numbers, followed at once by acceptReview of that id leaves D
\* with [S.from, S.to) replaced by T (as the editor holds T).
C2_AcceptReplacesSpan ==
    (trip.stage = "accepted" /\ SpanAgrees(trip.D, trip.range))
        => doc = Replace(trip.D, trip.range.from, trip.range.to,
                         InsertedText(trip.T))

\* what C3 states of a step addReview(review) taken with no live review
AddReviewPost(review) ==
    LET toLine == Clamp(review.range.toLine, Lines(doc))
        fromLine == Clamp(review.range.fromLine, Lines(doc))
        insertPos == LineTo(doc, toLine)
        T == InsertedText(review.improvedText)
        i == Find(metadata', review.id)
    IN  /\ doc' = Replace(doc, insertPos, insertPos, <<NL>> \o T)
        /\ i # 0
        /\ LET m == metadata'[i]
           IN  /\ m.originalText = Slice(doc, LineFrom(doc, fromLine), LineTo(doc, toLine))
               /\ m.insertedFrom = insertPos + 1
               /\ m.insertedTo = insertPos + 1 + Length(review.improvedText)
               /\ Slice(doc', m.insertedFrom - 1, m.insertedFrom) = <<NL>>
               /\ m.insertedTo <= Len(doc')
               /\ Slice(doc', m.insertedFrom, m.insertedTo) = T

\* C3: a step addReview on an attached view with no live review inserts
\* "\n" + improvedText at the end of the line toLine and, in the same step,
\* records the review with originalText, insertedFrom and insertedTo such
\* that [insertedFrom, insertedTo) holds exactly improvedText.
C3_AddReviewInsertsAndRecords ==
    [][\A review \in Reviews :
          (view = "attached" /\ metadata = <<>> /\ addReview(review))
              => AddReviewPost(review)]_vars

\* a step of the hook's operation op (every call counts in nCalls)
Stepped(ops) == nCalls' # nCalls /\ last'.op \in ops

\* C4: a step removeReview(id), for a present or an absent id, and a step
\* clearReviews leave the document text unchanged.
C4_RemoveAndClearKeepText ==
    [][Stepped({"removeReview", "clearReviews"}) => doc' = doc]_vars

\* a live review was removed from an attached editor and the original and
\* the inserted text are still in the document
C4_Witness ==
    /\ last.op = "removeReview" /\ last.live /\ last.result = "ok"
    /\ metadata = <<>>
    /\ \E i \in 1..Len(doc) : doc[i] = "x"
    /\ \E i \in 1..Len(doc) : doc[i] = "a"

\* no record and no decoration of the review id
Absent(metas, decos, id) ==
    /\ Find(metas, id) = 0
    /\ \A j \in 1..Len(decos) : decos[j].id # id

\* C5: after removeReview, acceptReview or rejectReview of a live id on an
\* attached view the review has no record and no decoration, after
\* clearReviews no review has; a review that is absent stays absent under
\* every step that does not add it.
C5_RecordLifecycle ==
    [][/\ (/\ Stepped({"removeReview", "acceptReview", "rejectReview"})
           /\ last'.live /\ view = "attached")
          => /\ Absent(metadata', decorations', last'.id)
             /\ \A id \in Ids :
                   id = last'.id => getReviewMetadata(id)' = NotFound
       /\ (Stepped({"clearReviews"}) /\ view = "attached")
          => metadata' = <<>> /\ decorations' = <<>>
       /\ \A id \in Ids :
             (Absent(metadata, decorations, id)
                /\ ~Stepped({"addReview", "addReviews"}))
             => Absent(metadata', decorations', id)]_vars

\* C6: removeReview, acceptReview and rejectReview of an id without a live
\* record do not raise and leave document, registry and decorations
\* unchanged; getReviewMetadata of such an id returns not-found.
C6_UnknownIdIsNoOp ==
    [][/\ (Stepped({"removeReview", "acceptReview", "rejectReview"}) /\ ~last'.live)
          => /\ last'.result # "raised"
             /\ UNCHANGED <<doc, metadata, decorations, injected>>
       /\ \A id \in Ids :
             /\ id \notin LiveIds => getReviewMetadata(id) = NotFound
             /\ (id \notin LiveIds => getReviewMetadata(id) = NotFound)']_vars

\* acceptReview of an id without a record was called on an attached editor
\* that holds the record of another review
C6_Witness ==
    /\ last.op = "acceptReview" /\ ~last.live /\ last.result = "noop"
    /\ view = "attached"
    /\ metadata # <<>>

HookOps ==
    {"addReview", "addReviews", "removeReview", "clearReviews",
     "acceptReview", "rejectReview"}

\* C7: while the hook holds no view, its six operations change neither
\* document nor registry nor decorations and do not raise, and
\* getReviewMetadata returns not-found for every id.
C7_NullViewIsNoOp ==
    [][/\ (view = "null" /\ Stepped(HookOps))
          => /\ last'.result = "noop"
             /\ UNCHANGED <<view, doc, metadata, decorations, injected>>
       /\ \A id \in Ids :
             /\ view = "null" => getReviewMetadata(id) = NotFound
             /\ (view = "null" => getReviewMetadata(id) = NotFound)']_vars

\* acceptReview of a review the editor holds was called while the hook had
\* no view
C7_Witness ==
    /\ view = "null"
    /\ last.op = "acceptReview" /\ last.live /\ last.result = "noop"

\* C8: every live record has rangeFrom <= rangeTo <= insertedFrom <=
\* insertedTo, all within [0, length of the document].
C8_RecordOrdering ==
    \A i \in 1..Len(metadata) :
        /\ 0 <= metadata[i].rangeFrom
        /\ metadata[i].rangeFrom <= metadata[i].rangeTo
        /\ metadata[i].rangeTo <= metadata[i].insertedFrom
        /\ metadata[i].insertedFrom <= metadata[i].insertedTo
        /\ metadata[i].insertedTo <= Len(doc)

\* the change c overlaps the half-open range [a, b): an insertion lies at
\* an offset of the range, a deletion or replacement shares a character
\* with it or spans it
Overlaps(c, a, b) ==
    IF c.from = c.to
    THEN a <= c.from /\ c.from < b
    ELSE c.from < b /\ a < c.to

\* the change c lies before the offset pos
LocatedBefore(c, pos) == c.from < pos /\ c.to <= pos

\* the length delta of the change c
LengthDelta(c) == Len(InsertedText(c.insert)) - (c.to - c.from)

\* the offset pos after the change c that lies before or after it
Shifted(c, pos) == IF LocatedBefore(c, pos) THEN pos + LengthDelta(c) ELSE pos

\* what C9 states of the record m, which the transaction with the change c
\* turns into n
RemapPost(c, m, n) ==
    (/\ ~Overlaps(c, m.rangeFrom, m.rangeTo)
     /\ ~Overlaps(c, m.insertedFrom, m.insertedTo))
    => /\ n.rangeFrom = Shifted(c, m.rangeFrom)
       /\ n.rangeTo = Shifted(c, m.rangeTo)
       /\ n.insertedFrom = Shifted(c, m.insertedFrom)
       /\ n.insertedTo = Shifted(c, m.insertedTo)
       /\ Slice(doc', n.rangeFrom, n.rangeTo) = Slice(doc, m.rangeFrom, m.rangeTo)
       /\ Slice(doc', n.insertedFrom, n.insertedTo)
             = Slice(doc, m.insertedFrom, m.insertedTo)

\* C9: a user edit that overlaps neither the original nor the inserted
\* range of a live record leaves the text over both ranges the same and
\* moves each offset by the edit's length delta if the edit lies before
\* the offset and not at all if it lies after it.
C9_RemapKeepsLogicalText ==
    [][(Stepped({"userEdit"}) /\ last'.result = "ok")
          => \A from \in 0..Len(doc) : \A to \in from..Len(doc) : \A insert \in Typed :
                userEdit(from, to, insert)
                   => /\ Len(metadata') = Len(metadata)
                      /\ \A i \in 1..Len(metadata) :
                            RemapPost(Change(from, to, insert),
                                      metadata[i], metadata'[i])]_vars

\* the user typed before the original range of a live review, and the
\* range still covers the original text
C9_Witness ==
    /\ last.op = "userEdit" /\ last.result = "ok"
    /\ \E i \in 1..Len(metadata) :
          /\ metadata[i].originalText # <<>>
          /\ Slice(doc, metadata[i].rangeFrom, metadata[i].rangeTo)
                = metadata[i].originalText
          /\ \E k \in 1..metadata[i].rangeFrom : doc[k] = "u"

\* the records of the reviews other than id
Others(metas, id) == SelectSeq(metas, LAMBDA m : m.id # id)

\* the texts of the records m and x (original range, separator, inserted
\* range) lie apart
Apart(m, x) == m.insertedTo < x.rangeFrom \/ x.insertedTo < m.rangeFrom

\* what C10 states of the record m of another review, which the step that
\* accepts or rejects the record x turns into n
IndependentPost(x, m, n) ==
    Apart(m, x)
    => /\ n.id = m.id
       /\ n.originalText = m.originalText
       /\ Slice(doc', n.rangeFrom, n.rangeTo) = Slice(doc, m.rangeFrom, m.rangeTo)
       /\ Slice(doc', n.insertedFrom, n.insertedTo)
             = Slice(doc, m.insertedFrom, m.insertedTo)

\* C10: a step that accepts or rejects a live review keeps the record of
\* every other review, and for each of them whose texts lie apart from the
\* texts of the review the step acts on, the original range and the
\* inserted range cover in the new document the texts they covered before.
C10_ReviewsAreIndependent ==
    [][(/\ Stepped({"acceptReview", "rejectReview"})
        /\ last'.result = "ok" /\ last'.live)
          => LET x == metadata[Find(metadata, last'.id)]
                 before == Others(metadata, last'.id)
                 after == Others(metadata', last'.id)
             IN  /\ Len(after) = Len(before)
                 /\ Len(metadata') = Len(after)
                 /\ \A j \in 1..Len(before) :
                       IndependentPost(x, before[j], after[j])]_vars

\* one of two reviews was accepted or rejected and the other review is
\* live, its ranges covering its original and its improved text
C10_Witness ==
    /\ last.op \in {"acceptReview", "rejectReview"}
    /\ last.result = "ok" /\ last.live
    /\ \E i \in 1..Len(metadata) :
          /\ metadata[i].id # last.id
          /\ metadata[i].originalText # <<>>
          /\ Slice(doc, metadata[i].rangeFrom, metadata[i].rangeTo)
                = metadata[i].originalText
          /\ Slice(doc, metadata[i].insertedFrom, metadata[i].insertedTo) = <<"x">>

\* the requests of a batch name lines of the document, in ascending order
\* and without overlap
AscendingBatch(reviews) ==
    /\ \A i \in 1..Len(reviews) : SpanAgrees(doc, reviews[i].range)
    /\ \A i \in 1..(Len(reviews) - 1) :
          reviews[i].range.toLine < reviews[i + 1].range.fromLine

\* the document with "\n" + improvedText inserted behind the line toLine of
\* every request of the batch
BatchInserted(reviews) ==
    ApplyChanges(doc,
        [i \in 1..Len(reviews) |->
            Change(LineTo(doc, reviews[i].range.toLine),
                   LineTo(doc, reviews[i].range.toLine),
                   <<NL>> \o reviews[i].improvedText)])

\* what C11 states of a step addReviews(reviews)
BatchPost(reviews) ==
    /\ last'.result = "ok"
    /\ doc' = BatchInserted(reviews)
    /\ Len(metadata') = Len(metadata) + Len(reviews)
    /\ \A i \in 1..Len(reviews) :
          LET m == metadata'[Len(metadata) + i]
          IN  /\ Slice(doc', m.insertedFrom - 1, m.insertedFrom) = <<NL>>
              /\ Slice(doc', m.insertedFrom, m.insertedTo)
                    = InsertedText(reviews[i].improvedText)

\* C11: a step addReviews on an attached view with requests in ascending
\* order over lines of the document that do not overlap does not raise,
\* inserts "\n" + improvedText behind the line toLine of every request, and
\* the inserted range of every new record holds its improved text.
C11_BatchInsertion ==
    [][(Stepped({"addReviews"}) /\ view = "attached")
          => \A n \in 1..MaxBatch :
                nAdds' - nAdds = n
                   => \A reviews \in Batches(n) :
                         (AscendingBatch(reviews) /\ addReviews(reviews))
                            => BatchPost(reviews)]_vars

\* the length of the texts the records i..Len(metas) say were inserted
RECURSIVE InsertedLength(_, _)
InsertedLength(metas, i) ==
    IF i > Len(metas) THEN 0
    ELSE (metas[i].insertedTo - metas[i].insertedFrom + 1)
         + InsertedLength(metas, i + 1)

\* C12: a step addReviews with N requests on an attached view is one
\* transaction: either all N records are added and the text of all N is
\* inserted, or the call raises and document, registry and decorations stay
\* as they were.
C12_BatchIsAtomic ==
    [][(Stepped({"addReviews"}) /\ view = "attached")
          => IF last'.result = "ok"
             THEN /\ Len(metadata') = Len(metadata) + (nAdds' - nAdds)
                  /\ Len(doc') = Len(doc) + InsertedLength(metadata', Len(metadata) + 1)
             ELSE UNCHANGED <<doc, metadata, decorations, injected>>]_vars

\* a batch of two requests was applied to a document without reviews
C12_Witness ==
    /\ last.op = "addReviews" /\ last.result = "ok"
    /\ nAdds = 2 /\ nCalls = 1
    /\ Len(metadata) = 2

\* a line number of the request lies outside the document
OutOfRange(review) ==
    \/ ~LineValid(doc, review.range.fromLine)
    \/ ~LineValid(doc, review.range.toLine)

\* the request with its line numbers clamped into the document
ClampedReview(review) ==
    Review(Clamp(review.range.fromLine, Lines(doc)),
           Clamp(review.range.toLine, Lines(doc)),
           review.improvedText, review.rangeClassName,
           review.improvedClassName, review.id)

\* the fields of a record that a later operation reads (originalFromLine is
\* only stored)
ReadLater(m) == [m EXCEPT !.originalFromLine = 0]

\* the step is what addReview(review) does on a document without reviews,
\* in all that a later operation reads
ActsAs(review) ==
    LET chs == AddReviewChanges(review)
        meta == AddReviewMeta(review)
    IN  IF DispatchOk(chs, <<AddEffect(meta)>>)
        THEN /\ last'.result = "ok"
             /\ doc' = ApplyChanges(doc, chs)
             /\ decorations' = NewDecorations(meta)
             /\ Len(metadata') = 1
             /\ ReadLater(metadata'[1]) = ReadLater(meta)
        ELSE /\ last'.result = "raised"
             /\ UNCHANGED <<doc, metadata, decorations, injected>>

\* C13: a step addReview with a line number outside the document, taken on
\* an attached view without reviews, leaves the state that the request with
\* its line numbers clamped into [1, lines of the document] leaves, in all
\* that later operations read.
C13_ClampedRequest ==
    [][(Stepped({"addReview"}) /\ view = "attached" /\ metadata = <<>>)
          => \A review \in Reviews :
                (OutOfRange(review) /\ addReview(review))
                   => ActsAs(ClampedReview(review))]_vars

\* C14: a step addReviews on an attached view in which a request names a
\* line outside the document does not raise and adds the record of every
\* request of the batch.
C14_BatchClamps ==
    [][(Stepped({"addReviews"}) /\ view = "attached")
          => \A n \in 1..MaxBatch :
                nAdds' - nAdds = n
                   => \A reviews \in Batches(n) :
                         (/\ \E i \in 1..n : OutOfRange(reviews[i])
                          /\ addReviews(reviews))
                            => /\ last'.result = "ok"
                               /\ Len(metadata') = Len(metadata) + n]_vars

\* C15: acceptReview and rejectReview of a live record on an attached view
\* never raise.
C15_StaleRequestsDoNotRaise ==
    [][(/\ Stepped({"acceptReview", "rejectReview"})
        /\ last'.live /\ view = "attached")
          => last'.result # "raised"]_vars

\* the decorations the registry calls for
RECURSIVE Projection(_)
Projection(metas) ==
    IF metas = <<>> THEN <<>>
    ELSE NewDecorations(Head(metas)) \o Projection(Tail(metas))

\* the elements of a sequence
Range(seq) == { seq[i] : i \in 1..Len(seq) }

\* C16: the decoration set is the projection of the registry: one block
\* replacement over [rangeFrom, rangeTo) for each record with a
\* rangeClassName, one mark over [insertedFrom, insertedTo) for each record
\* with an improvedClassName, and nothing else.
C16_DecorationsProjectRegistry ==
    /\ Len(decorations) = Len(Projection(metadata))
    /\ Range(decorations) = Range(Projection(metadata))

\* C17: a clearReviews call that follows a clearReviews call at once leaves
\* the document, the registry and the decorations as the first call left
\* them (on an attached view: registry and decorations empty) and does not
\* raise.
C17_ClearIsIdempotent ==
    trip.stage = "clearedTwice"
        => /\ <<doc, metadata, decorations, injected>> = trip.after
           /\ last.result # "raised"
           /\ view = "attached" => metadata = <<>> /\ decorations = <<>>

\* clearReviews was called twice in a row on an attached view whose
\* document holds the text of a review
C17_Witness ==
    /\ trip.stage = "clearedTwice"
    /\ view = "attached"
    /\ last.op = "clearReviews" /\ last.result = "ok"
    /\ nAdds > 0
    /\ \E i \in 1..Len(doc) : doc[i] = "x"

\* C18: a step addInject on an attached view whose request names a line
\* outside [1, lines of the document] adds no decoration, leaves the
\* injected decorations and the document as they are and does not raise.
C18_InvalidLineIsIgnored ==
    [][(Stepped({"addInject"}) /\ view = "attached" /\ last'.id = "invalid")
          => \A spec \in InjectSpecs :
                (InvalidLines(doc, spec) /\ addInject(spec))
                   => /\ injected' = injected
                      /\ doc' = doc
                      /\ last'.result = "ok"]_vars

\* addInject with a line outside the document was called on an attached
\* view that holds an injected decoration
C18_Witness ==
    /\ view = "attached"
    /\ last.op = "addInject" /\ last.id = "invalid" /\ last.result = "ok"
    /\ injected # <<>>

\* the decoration carries the class or the id the removal names
Matches(d, spec) ==
    \/ spec.type = "className" /\ d.spec.class = spec.content
    \/ spec.type = "id" /\ Has(d.spec, "id") /\ d.spec.id = spec.content

\* C19: a step removeInject on an attached view removes the injected
\* decorations whose class (type className) or id (type id) is the content
\* of the request and keeps every other one at its position.
C19_RemoveInjectRemovesMatching ==
    [][(Stepped({"removeInject"}) /\ view = "attached")
          => \A spec \in RemoveSpecs :
                removeInject(spec)
                   => injected' = SelectSeq(injected, LAMBDA d : ~Matches(d, spec))]_vars

\* the effects of the other requests a transaction may carry
OtherEffects ==
    { AddInjectEffect(spec) : spec \in InjectSpecs }
       \cup { RemoveInjectEffect(spec) : spec \in RemoveSpecs }

\* C20: a step addInject on an attached view whose request lacks the
\* payload of its type (a range request without range, a single request
\* without singleLineNumber) does not raise, adds no decoration and leaves
\* the injected decorations of the other requests as they are; in one
\* transaction with the effect of another request, before or after it, the
\* field update gives what it gives for the other effect alone.
C20_MalformedIsNoOp ==
    [][(Stepped({"addInject"}) /\ view = "attached" /\ last'.id = "malformed")
          => \A spec \in InjectSpecs :
                (Malformed(spec) /\ addInject(spec))
                   => /\ injected' = injected
                      /\ doc' = doc
                      /\ last'.result = "ok"
                      /\ \A e \in OtherEffects :
                            LET alone == injectFieldUpdate(doc, injected, <<>>, <<e>>)
                                mal == AddInjectEffect(spec)
                            IN  /\ injectFieldUpdate(doc, injected, <<>>, <<mal, e>>) = alone
                                /\ injectFieldUpdate(doc, injected, <<>>, <<e, mal>>) = alone]_vars

\* addInject without the payload of its type was called on an attached
\* view that holds an injected decoration
C20_Witness ==
    /\ view = "attached"
    /\ last.op = "addInject" /\ last.id = "malformed" /\ last.result = "ok"
    /\ injected # <<>>

---------------------------------------------------------------------------
(* useCmeSelection                                                         *)

\* the 1-indexed line of s whose offsets, line break excluded, hold pos
LineHolding(s, pos) ==
    CHOOSE n \in 1..Lines(s) : LineFrom(s, n) <= pos /\ pos <= LineTo(s, n)

\* C21: getSelection returns null exactly when no view is attached;
\* otherwise it describes the selection and the document of the current
\* state: from <= to are the bounds of the main selection, fromLine <=
\* toLine are the lines that hold from and to, text is the document between
\* from and to, and hasSelection says that from and to differ.
C21_GetSelection ==
    /\ (getSelection = Null) <=> (view = "null")
    /\ view = "attached" =>
          LET info == getSelection
          IN  /\ info.from <= info.to
              /\ {info.from, info.to} = {selection.anchor, selection.head}
              /\ info.fromLine = LineHolding(doc, info.from)
              /\ info.toLine = LineHolding(doc, info.to)
              /\ info.fromLine <= info.toLine
              /\ Len(info.text) = info.to - info.from
              /\ \A k \in 1..Len(info.text) : info.text[k] = doc[info.from + k]
              /\ info.hasSelection <=> (info.from # info.to)

\* after an edit made since the view was attached, the selection runs
\* backwards over a line break
C21_Witness ==
    /\ view = "attached"
    /\ nEdits = 1
    /\ selection.head < selection.anchor
    /\ getSelection.fromLine < getSelection.toLine


---------------------------------------------------------------------------
(* Line numbers of addReview                                               *)

\* the record the step has pushed
Pushed == metadata'[Len(metadata')]

\* a step addReview on the attached view that created a record
Creates ==
    /\ Stepped({"addReview"})
    /\ view = "attached"
    /\ last'.result = "ok"

\* the step is addReview(review)
Created(review) ==
    /\ review.id = last'.id
    /\ review.range.fromLine = Pushed.originalFromLine
    /\ review.range.toLine = Pushed.originalToLine
    /\ addReview(review)

\* the record pushed and the insertion made are those of the lines
\* fromLine + shift .. toLine + shift, clamped, of the document of the call
ResolvedAt(review, shift) ==
    LET fromLine == Max(1, Min(review.range.fromLine + shift, Lines(doc)))
        toLine == Max(1, Min(review.range.toLine + shift, Lines(doc)))
    IN  /\ Len(metadata') = Len(metadata) + 1
        /\ Pushed.rangeFrom = LineFrom(doc, fromLine)
        /\ Pushed.rangeTo = LineTo(doc, toLine)
        /\ doc' = Replace(doc, LineTo(doc, toLine), LineTo(doc, toLine),
                          <<NL>> \o InsertedText(review.improvedText))

\* the improved line counts of the live records numbered from i on whose
\* request ended on a positive line before fromLine
RECURSIVE Compensation(_, _)
Compensation(i, fromLine) ==
    IF i > Len(metadata) THEN 0
    ELSE Compensation(i + 1, fromLine)
         + (IF 0 < metadata[i].originalToLine /\ metadata[i].originalToLine < fromLine
            THEN metadata[i].improvedLineCount ELSE 0)

\* C22 as stated: a step addReview that creates a record resolves fromLine
\* and toLine, clamped, against the document of the call, whatever reviews
\* are live: rangeFrom is the start of line fromLine, rangeTo the end of
\* line toLine, and the insertion is made at the end of that line.
C22_ResolvedAgainstCurrentDocument ==
    [][Creates => \A review \in Reviews : Created(review) => ResolvedAt(review, 0)]_vars

\* C22 amended: a step addReview that creates a record resolves fromLine
\* and toLine against the document of the call after adding to both the
\* improved line counts of the live records whose request ended on a
\* positive line before fromLine, and clamping: rangeFrom is the start of
\* that first line, rangeTo the end of that last line, and the insertion is
\* made at the end of that last line.
C22_ResolvedWithLineOffset ==
    [][Creates
          => \A review \in Reviews :
                Created(review)
                   => ResolvedAt(review, Compensation(1, review.range.fromLine))]_vars

\* addReview has created a record for a request that begins behind the
\* last line of the request of a live review
C22_Witness ==
    /\ last.op = "addReview" /\ last.result = "ok"
    /\ Len(metadata) = 2
    /\ metadata[1].originalToLine > 0
    /\ metadata[2].originalFromLine > metadata[1].originalToLine


\* the text of the lines fromLine..toLine of s
LinesText(s, fromLine, toLine) == Slice(s, LineFrom(s, fromLine), LineTo(s, toLine))

\* the record pushed holds the lines of the request as they are in the
\* document base.D, and the improved text is inserted directly behind them
CompensatedPost(review) ==
    LET text == LinesText(base.D, review.range.fromLine, review.range.toLine)
    IN  /\ Pushed.originalText = text
        /\ Slice(doc, Pushed.rangeFrom, Pushed.rangeTo) = text
        /\ doc' = Replace(doc, Pushed.rangeTo, Pushed.rangeTo,
                          <<NL>> \o InsertedText(review.improvedText))

\* C23: when nothing but addReview, addReviews and removeReview has changed
\* the editor and every request named lines of the document as it was
\* before any review that no other request names, a step addReview that
\* creates a record captures the text of the lines fromLine..toLine of
\* that document as originalText and inserts the improved text directly
\* behind that text.
C23_CompensatesPreviousReviews ==
    [][(Creates /\ base.plain)
          => \A review \in Reviews :
                (RequestsApart(<<review>>) /\ Created(review))
                   => CompensatedPost(review)]_vars


---------------------------------------------------------------------------
(* The record of the transaction that creates it                           *)

\* the record m moved behind the insertion c where it lies behind it
ShiftedMeta(c, m) ==
    [m EXCEPT !.rangeFrom = Shifted(c, m.rangeFrom),
              !.rangeTo = Shifted(c, m.rangeTo),
              !.insertedFrom = Shifted(c, m.insertedFrom),
              !.insertedTo = Shifted(c, m.insertedTo)]

\* the records live before the step are remapped through the insertion
\* made at pos, and the record pushed delimits its original lines and the
\* improved text just inserted in the new document
OwnEditPost(review, pos) ==
    LET c == Change(pos, pos, <<NL>> \o review.improvedText)
        T == InsertedText(review.improvedText)
    IN  /\ Len(metadata') = Len(metadata) + 1
        /\ \A i \in 1..Len(metadata) : metadata'[i] = ShiftedMeta(c, metadata[i])
        /\ Pushed.rangeFrom <= Pushed.rangeTo /\ Pushed.rangeTo = pos
        /\ Slice(doc', Pushed.rangeFrom, Pushed.rangeTo) = Pushed.originalText
        /\ Pushed.rangeFrom = 0 \/ doc'[Pushed.rangeFrom] = NL
        /\ Pushed.insertedFrom = Pushed.rangeTo + 1
        /\ doc'[Pushed.insertedFrom] = NL
        /\ Pushed.insertedTo = Pushed.insertedFrom + Len(T)
        /\ Pushed.insertedTo <= Len(doc')
        /\ Slice(doc', Pushed.insertedFrom, Pushed.insertedTo) = T

\* C24: in a step addReview that creates a record, the records that were
\* live are remapped through the insertion, and the new record is stored
\* with offsets of the new document: rangeFrom and rangeTo delimit the
\* original lines, insertedFrom and insertedTo the improved text just
\* inserted behind the line break that follows them.
C24_OwnEditExclusion ==
    [][Creates
          => \A review \in Reviews :
                Created(review)
                   => \E pos \in 0..Len(doc) :
                         /\ doc' = Replace(doc, pos, pos,
                                           <<NL>> \o InsertedText(review.improvedText))
                         /\ OwnEditPost(review, pos)]_vars


---------------------------------------------------------------------------
(* The inserted span                                                       *)

\* the inserted span of the record m holds in the document d the line
\* break and the improved text T: either [insertedFrom, insertedTo) holds
\* both, or the line break lies right before insertedFrom and
\* [insertedFrom, insertedTo) holds T
HoldsInserted(d, m, T) ==
    /\ m.insertedFrom >= 1 /\ m.insertedFrom <= m.insertedTo /\ m.insertedTo <= Len(d)
    /\ \/ Slice(d, m.insertedFrom, m.insertedTo) = <<NL>> \o T
       \/ /\ d[m.insertedFrom] = NL
          /\ Slice(d, m.insertedFrom, m.insertedTo) = T

\* a step addReview or addReviews on the attached view that did not raise
\* leaves the inserted span of every record it pushed holding the improved
\* text of its request
InsertedEstablished ==
    /\ (Creates =>
          \A review \in Reviews :
             Created(review)
                => HoldsInserted(doc', Pushed, InsertedText(review.improvedText)))
    /\ (Stepped({"addReviews"}) /\ view = "attached" /\ last'.result = "ok") =>
          \A n \in 0..MaxBatch : \A reviews \in Batches(n) :
             (Len(metadata') = Len(metadata) + n /\ addReviews(reviews))
                => \A i \in 1..n :
                      HoldsInserted(doc', metadata'[Len(metadata) + i],
                                    InsertedText(reviews[i].improvedText))

\* a user edit that does not touch the inserted span of a live record, its
\* line break included, leaves the span holding the text it held
InsertedKept ==
    (Stepped({"userEdit"}) /\ last'.result = "ok") =>
       \A from \in 0..Len(doc) : \A to \in from..Len(doc) : \A insert \in Typed :
          userEdit(from, to, insert)
             => /\ Len(metadata') = Len(metadata)
                /\ \A i \in 1..Len(metadata) :
                      ~Overlaps(Change(from, to, insert),
                                metadata[i].insertedFrom - 1, metadata[i].insertedTo)
                         => Slice(doc', metadata'[i].insertedFrom - 1,
                                  metadata'[i].insertedTo)
                               = Slice(doc, metadata[i].insertedFrom - 1,
                                       metadata[i].insertedTo)

\* C25: the inserted span of a live record holds the line break and the
\* improved text inserted for the record: the step that creates the record
\* leaves it so, and every later edit that does not touch the span keeps
\* the text the span holds.
C25_InsertedSpanContent ==
    [][InsertedEstablished /\ InsertedKept]_vars


---------------------------------------------------------------------------
(* Identifiers                                                             *)

\* C26: no two live records share an id, the ids generated for requests
\* without an id included.
C26_IdsAreUnique ==
    \A i, j \in 1..Len(metadata) : i # j => metadata[i].id # metadata[j].id


\* the sequence seq without its i-th element
Without(seq, i) == SubSeq(seq, 1, i - 1) \o SubSeq(seq, i + 1, Len(seq))

\* the edit acceptReview, rejectReview and removeReview make for the
\* record m
EditFor(op, m) ==
    IF op = "acceptReview" THEN Replace(doc, m.rangeFrom, m.rangeTo + 1, <<>>)
    ELSE IF op = "rejectReview" THEN Replace(doc, m.insertedFrom - 1, m.insertedTo, <<>>)
    ELSE doc

\* C27: when two live records share an id, a step acceptReview,
\* rejectReview or removeReview of that id that does not raise edits the
\* document with the ranges of the record getReviewMetadata returns for
\* the id, removes that record and its decorations, and keeps every other
\* record, the other record of that id included.
C27_DuplicateIdActsOnLookup ==
    [][(/\ Stepped({"acceptReview", "rejectReview", "removeReview"})
        /\ view = "attached" /\ last'.result = "ok" /\ last'.live
        /\ \E i, j \in 1..Len(metadata) :
              i < j /\ metadata[i].id = last'.id /\ metadata[j].id = last'.id)
          => LET i == Find(metadata, last'.id)
                 kept == Without(metadata, i)
             IN  /\ metadata[i] = getReviewMetadata(last'.id)
                 /\ doc' = EditFor(last'.op, metadata[i])
                 /\ Len(metadata') = Len(kept)
                 /\ \A k \in 1..Len(kept) :
                       /\ metadata'[k].id = kept[k].id
                       /\ metadata'[k].originalText = kept[k].originalText
                 /\ \A k \in 1..Len(decorations') :
                       decorations'[k].id # last'.id
                          \/ \E n \in 1..Len(kept) : kept[n].id = last'.id]_vars


---------------------------------------------------------------------------
(* Captured fields                                                         *)

\* the fields of a record that are captured at creation
Captured(m) == <<m.id, m.originalText, m.rangeClassName, m.improvedClassName>>

CapturedSeq(metas) == [i \in 1..Len(metas) |-> Captured(metas[i])]

\* C28: every step keeps id, originalText, rangeClassName and
\* improvedClassName of every record it does not destroy: a step
\* clearReviews destroys all records, a step removeReview, acceptReview or
\* rejectReview the records of its id or none, and every other step keeps
\* all records, in their order, and may add new ones behind them.
C28_CapturedFieldsAreFrozen ==
    [][LET old == CapturedSeq(metadata)
           new == CapturedSeq(metadata')
       IN  IF Stepped({"clearReviews"}) THEN new = <<>> \/ new = old
           ELSE IF Stepped({"removeReview", "acceptReview", "rejectReview"})
           THEN \/ new = old
                \/ new = SelectSeq(old, LAMBDA c : c[1] # last'.id)
           ELSE /\ Len(new) >= Len(old)
                /\ SubSeq(new, 1, Len(old)) = old]_vars

\* a review was accepted or rejected, which moved the offsets of the
\* record of another review that is still live with its captured text
C28_Witness ==
    /\ last.op \in {"acceptReview", "rejectReview"}
    /\ last.result = "ok" /\ last.live
    /\ \E i \in 1..Len(metadata) :
          /\ metadata[i].originalText # <<>>
          /\ metadata[i].rangeClassName # NoClass
          /\ metadata[i].rangeFrom > 0


---------------------------------------------------------------------------
(* addReviews and addReview                                                *)

\* the offsets and the captured text of a record
Placed(m) == <<m.rangeFrom, m.rangeTo, m.originalText, m.insertedFrom, m.insertedTo>>

\* C29: on an attached view with no live review, a step
\* addReviews(<<review>>) for a request whose span lies within its lines
\* of the document gives the document addReview(review) gives and a record
\* with the same rangeFrom, rangeTo, originalText, insertedFrom and
\* insertedTo, and raises where addReview(review) raises.
C29_BatchOfOneIsAddReview ==
    [][(Stepped({"addReviews"}) /\ view = "attached" /\ metadata = <<>>)
          => \A review \in SpanReviews :
                addReviews(<<review>>)
                   => IF DispatchOk(AddReviewChanges(review),
                                    <<AddEffect(AddReviewMeta(review))>>)
                      THEN /\ last'.result = "ok"
                           /\ doc' = ApplyChanges(doc, AddReviewChanges(review))
                           /\ Len(metadata') = 1
                           /\ Placed(metadata'[1]) = Placed(AddReviewMeta(review))
                      ELSE /\ last'.result = "raised"
                           /\ doc' = doc /\ metadata' = <<>>]_vars


---------------------------------------------------------------------------
(* Accept and reject after an unrelated edit                               *)

\* the edit c overlaps neither the original nor the inserted range of m
Unrelated(c, m) ==
    /\ ~Overlaps(c, m.rangeFrom, m.rangeTo)
    /\ ~Overlaps(c, m.insertedFrom, m.insertedTo)

\* the edit c moved back by n where it lies behind the inserted range of m
MovedBack(c, m, n) ==
    IF c.from >= m.insertedTo
    THEN Change(c.from - n, c.to - n, c.insert)
    ELSE c

\* C30: addReview of a review with a fresh id on the document D, then a
\* user edit E that overlaps neither range of the record, then
\* rejectReview leaves E applied to D, and then acceptReview instead
\* leaves E applied to D with the original lines replaced by the improved
\* text.
C30_AcceptRejectCommuteWithEdits ==
    /\ (trip.stage = "editedRejected" /\ Unrelated(trip.E, trip.m))
          => doc = ApplyChanges(trip.D,
                      <<MovedBack(trip.E, trip.m,
                                  trip.m.insertedTo - trip.m.rangeTo)>>)
    /\ (trip.stage = "editedAccepted" /\ Unrelated(trip.E, trip.m))
          => doc = ApplyChanges(Replace(trip.D, trip.m.rangeFrom, trip.m.rangeTo,
                                        InsertedText(trip.T)),
                      <<MovedBack(trip.E, trip.m,
                                  trip.m.rangeTo + 1 - trip.m.rangeFrom)>>)

---------------------------------------------------------------------------
(* The edit of acceptReview                                                *)

\* the record of the review the trip follows
TripMeta == metadata[Find(metadata, trip.id)]

\* acceptReview is called for the live record the addReview call right
\* before it created
AcceptsJustAdded ==
    /\ Stepped({"acceptReview"})
    /\ view = "attached"
    /\ trip.stage = "added"
    /\ last'.id = trip.id
    /\ trip.id \in LiveIds

\* C31: for a live record created by addReview with no edit in between,
\* acceptReview makes one transaction that deletes [rangeFrom, rangeTo + 1)
\* and removes the record; the character deleted at rangeTo is the line
\* break addReview put between the original and the improved text, the
\* characters before it are the original lines, and the improved text
\* stays in the document as ordinary text.
C31_AcceptEditShape ==
    [][ AcceptsJustAdded =>
          LET m == TripMeta
              T == InsertedText(trip.T)
          IN  /\ last'.result = "ok"
              /\ doc' = Replace(doc, m.rangeFrom, m.rangeTo + 1, <<>>)
              /\ trip.id \notin { metadata'[i].id : i \in 1..Len(metadata') }
              /\ m.rangeTo + 1 = m.insertedFrom
              /\ Slice(doc, m.rangeTo, m.rangeTo + 1) = <<NL>>
              /\ Slice(doc, m.rangeFrom, m.rangeTo) = Slice(trip.D, m.rangeFrom, m.rangeTo)
              /\ Slice(doc, m.insertedFrom, m.insertedFrom + Len(T)) = T
              /\ Slice(doc', m.rangeFrom, m.rangeFrom + Len(T)) = T
              /\ \A i \in 1..Len(decorations') : decorations'[i].id # trip.id
      ]_vars

---------------------------------------------------------------------------
(* The extensions side by side                                             *)

ReviewEdits == {"addReview", "addReviews", "acceptReview", "rejectReview"}
AnnotationOps == {"addInject", "removeInject", "addLineWidget", "removeLineWidget"}

\* the lines of the document a step of acceptReview or rejectReview is
\* about: the original lines, the lines of the improved text
OwnLines(m) ==
    IF last'.op = "acceptReview"
    THEN LineAt(doc, m.rangeFrom)..LineAt(doc, m.rangeTo)
    ELSE LineAt(doc, m.insertedFrom)..LineAt(doc, m.insertedTo)

\* the lines at whose end the requests insert
InsertLines(chs) == { LineAt(doc, chs[k].from) : k \in 1..Len(chs) }

\* how far the changes that lie before line n move it
RECURSIVE LineShift(_, _)
LineShift(chs, n) ==
    IF chs = <<>> THEN 0
    ELSE (IF Head(chs).to <= LineFrom(doc, n)
          THEN CountNL(InsertedText(Head(chs).insert))
               - CountNL(Slice(doc, Head(chs).from, Head(chs).to))
          ELSE 0)
         + LineShift(Tail(chs), n)

\* the entry d of a decoration set before the step has an entry with the
\* same spec after it, at the same column of the same logical line
StaysOnLine(value, d, chs) ==
    LET n == LineAt(doc, d.from)
        k == n + LineShift(chs, n)
    IN  /\ LineValid(doc', k)
        /\ LinesText(doc', k, k) = LinesText(doc, n, n)
        /\ \E j \in 1..Len(value) :
              /\ value[j].spec = d.spec
              /\ value[j].from - LineFrom(doc', k) = d.from - LineFrom(doc, n)

\* the entries on lines other than own keep their lines
OtherLinesKept(own, chs) ==
    /\ \A i \in 1..Len(injected) :
          LineAt(doc, injected[i].from) \notin own
              => StaysOnLine(injected', injected[i], chs)
    /\ \A i \in 1..Len(widgets) :
          LineAt(doc, widgets[i].from) \notin own
              => StaysOnLine(widgets', widgets[i], chs)

Specs(value) == [i \in 1..Len(value) |-> value[i].spec]

\* C32: (a) after a review operation that edits the document, the injected
\* line decorations and the line widgets on the lines the operation is not
\* about annotate the same logical lines as before; (b) a review operation
\* neither adds an entry to nor removes one from the decoration sets of the
\* two other extensions; (c) an inject or line-widget operation changes
\* neither the review registry nor the text.
C32_ExtensionsAreIndependent ==
    [][ /\ (Stepped(ReviewEdits) /\ last'.result = "ok") =>
              /\ Specs(injected') = Specs(injected)
              /\ Specs(widgets') = Specs(widgets)
              /\ last'.op \in {"acceptReview", "rejectReview"} =>
                    LET m == metadata[Find(metadata, last'.id)]
                    IN  OtherLinesKept(OwnLines(m),
                                       IF last'.op = "acceptReview" THEN AcceptChanges(m)
                                       ELSE RejectChanges(m))
              /\ last'.op = "addReview" =>
                    \A review \in Reviews :
                       (review.id = last'.id /\ addReview(review)) =>
                          OtherLinesKept(InsertLines(AddReviewChanges(review)),
                                         AddReviewChanges(review))
              /\ last'.op = "addReviews" =>
                    \A n \in 1..MaxBatch : \A reviews \in Batches(n) :
                       addReviews(reviews) =>
                          OtherLinesKept(InsertLines(AddReviewsChanges(reviews)),
                                         AddReviewsChanges(reviews))
        /\ Stepped(AnnotationOps) => UNCHANGED <<doc, metadata, decorations>>
      ]_vars

---------------------------------------------------------------------------
(* The hook without its extension                                          *)

\* C33: on a view whose state lacks the review extension, a step of
\* addReview, addReviews, acceptReview or rejectReview leaves the document
\* text unchanged and creates no record.
C33_NoExtensionNoEffect ==
    [][ (view = "bare" /\ Stepped(ReviewEdits)) =>
            /\ doc' = doc
            /\ metadata' = <<>>
            /\ decorations' = <<>>
      ]_vars

---------------------------------------------------------------------------
(* Valid inject requests                                                   *)

\* the lines a well-formed request names
Requested(spec) ==
    IF spec.type = "single" THEN {spec.singleLineNumber}
    ELSE spec.range.from..spec.range.to

\* the request is well-formed and names lines of the document s only
ValidRequest(s, spec) ==
    /\ ~Malformed(spec)
    /\ \A n \in Requested(spec) : 1 <= n /\ n <= Lines(s)

\* the line decoration d carries the class of the request, and its id
\* exactly when the request supplies one
Carries(d, spec) ==
    /\ DOMAIN d.spec = (IF Has(spec, "id") THEN {"class", "id"} ELSE {"class"})
    /\ d.spec.class = spec.className
    /\ Has(spec, "id") => d.spec.id = spec.id

\* how often the set holds the entry d
Count(value, d) == Cardinality({ i \in 1..Len(value) : value[i] = d })

\* d is the decoration the request asks for on one of its lines
Asked(s, d, spec) ==
    /\ d.from = d.to
    /\ \E n \in Requested(spec) : d.from = LineFrom(s, n)
    /\ Carries(d, spec)

---------------------------------------------------------------------------
(* Line widgets                                                            *)

\* the line the request is carried out on
ClampedLine(s, n) ==
    IF n < 1 THEN 1 ELSE IF n > Lines(s) THEN Lines(s) ELSE n

\* where the widget of the request goes
WidgetPos(s, w) ==
    IF Has(w, "above") /\ w.above THEN LineFrom(s, ClampedLine(s, w.lineNumber))
    ELSE LineTo(s, ClampedLine(s, w.lineNumber))

\* the widget decoration d is the one the request w asks for
WidgetOf(d, w) ==
    /\ d.spec.widget.component = w.component
    /\ Has(d.spec.widget, "id") = Has(w, "id")
    /\ Has(w, "id") => d.spec.widget.id = w.id

\* C35: addLineWidget on an attached view never rejects a line number: the
\* lineNumber is clamped to [1, totalLines] of the document and exactly one
\* widget is added, at the start of that line when above is true and at
\* its end otherwise; the widgets the set held are neither removed nor
\* moved, and the document stays as it is.
C35_AddLineWidgetClamps ==
    [][(Stepped({"addLineWidget"}) /\ view = "attached")
          => \A w \in WidgetSpecs :
                addLineWidget(w)
                   => /\ last'.result = "ok"
                      /\ doc' = doc
                      /\ \E k \in 1..Len(widgets') :
                            /\ widgets'[k].from = WidgetPos(doc, w)
                            /\ widgets'[k].to = WidgetPos(doc, w)
                            /\ WidgetOf(widgets'[k], w)
                            /\ Without(widgets', k) = widgets
      ]_vars

\* a request for a line outside the document was carried out by an
\* attached view that held a widget, and the set holds two widgets now
C35_Witness ==
    /\ view = "attached"
    /\ last.op = "addLineWidget"
    /\ last.result = "ok"
    /\ Len(widgets) = 2
    /\ Lines(doc) = 2
    /\ \E i \in 1..2 : widgets[i].from = Len(doc) /\ widgets[i].spec.side = 1
    /\ \E i \in 1..2 : widgets[i].from = 0 /\ widgets[i].spec.side < 0

\* the widget decoration d has the id
HasId(d, id) == Has(d.spec.widget, "id") /\ d.spec.widget.id = id

\* C36: removeLineWidget(id) removes every widget whose id is id and
\* nothing else: the widgets with another id and the widgets without id
\* stay at their positions and in their order; the call does not raise,
\* leaves the document alone, and changes nothing when no widget has the
\* id or when the view is null.
C36_RemoveLineWidgetById ==
    [][Stepped({"removeLineWidget"})
          => /\ last'.result # "raised"
             /\ doc' = doc
             /\ \A j \in 1..Len(widgets') : ~HasId(widgets'[j], last'.id)
             /\ \A i \in 1..Len(widgets) :
                   ~HasId(widgets[i], last'.id)
                      => Count(widgets', widgets[i]) = Count(widgets, widgets[i])
             /\ Len(widgets') = Cardinality({ i \in 1..Len(widgets) :
                                               ~HasId(widgets[i], last'.id) })
             /\ \A j \in 1..(Len(widgets') - 1) :
                   widgets'[j].from <= widgets'[j + 1].from
             /\ (view = "null" \/ \A i \in 1..Len(widgets) : ~HasId(widgets[i], last'.id))
                   => UNCHANGED <<doc, metadata, decorations, injected, widgets>>
      ]_vars

\* removeLineWidget took a widget away and left another, which has no id
\* or another id
C36_Witness ==
    /\ view = "attached"
    /\ last.op = "removeLineWidget"
    /\ last.result = "ok"
    /\ trip.stage = "widgetsRemoved"
    /\ trip.n >= 1
    /\ Len(widgets) >= 1
    /\ ~HasId(widgets[1], last.id)

============================================================================
